---------------------------- MODULE Spec2Model ----------------------------
(***************************************************************************)
(* Model of brd's SSQ step-chart decoder (src/src/ddr/ssq.rs) and of the   *)
(* ddr2osu converter (src/src/converter/ddr2osu.rs).                       *)
(*                                                                         *)
(* Representation                                                          *)
(*  - u8 / u16 / i32 values are TLA+ integers inside their ranges.         *)
(*  - A Result is a record with a "tag" field: "Ok" (with val), "Err"      *)
(*    (with err, arg), "Panic" (an abnormal abort) or "Unset" (the call    *)
(*    has not been made yet).                                              *)
(*  - f32 beats are kept as exact integers counting 1/MEASURE_LENGTH of a  *)
(*    beat: measure_to_beats(m) = 4*m/4096 is exact in f32 for the measure *)
(*    values the model draws (all far below 2^24).                         *)
(*  - u32 milliseconds are kept as two 16-bit limbs <<hi, lo>> so that     *)
(*    32-bit wrap-around is computed with the width the code has.          *)
(***************************************************************************)
EXTENDS Integers, Sequences, FiniteSets, TLC

VARIABLES
    \* ---- Row harness: Row::new / Row::intersects / Row::count_active
    columns,            \* byte argument of Row::new for `self`
    players,            \* players argument of Row::new for `self`
    other_columns,      \* byte argument of Row::new for `other`
    other_players,      \* players argument of Row::new for `other`
    row,                \* Result of Row::new(columns, players)
    other,              \* Result of Row::new(other_columns, other_players)
    intersects,         \* Result of row.intersects(other) and row.count_active()
    \* ---- Level harness: Level::new / Level::try_from
    level_call,         \* which constructor is called, with its arguments
    level,              \* Result of the call
    levels,             \* the level table handed to to_value
    value,              \* Result of level.to_value(levels)
    \* ---- Shock column resolver: ShockStepGenerator
    shock_step_generator,   \* the generator: last, columns, mode
    emitted,            \* what each call of next() returned, in call order
    \* ---- Tempo map: TempoChanges::parse and get_time_from_beats
    overflow_checks,    \* the build: TRUE panics on integer overflow, FALSE wraps
    ticks_per_second,   \* the tempo chunk's parameter
    measure,            \* the chunk's measure array (i32)
    tempo_data,         \* the chunk's tick array (i32)
    tempo_changes,      \* Result of TempoChanges::parse
    beats,              \* the beat get_time_from_beats was last asked for
    time,               \* Result of get_time_from_beats(beats, tempo_changes)
    \* ---- Step chunk: Chart::parse
    parameter,          \* the chunk's 16-bit parameter
    measures,           \* the chunk's measure offsets (i32), one per record
    steps,              \* the chunk's raw column masks (u8), one per record
    freeze_data,        \* the bytes after the masks, as read by read_to_end
    difficulty,         \* Result of parameter.try_into()
    freeze_iter,        \* what the freeze iterator has still to yield
    step,               \* loop variable: index (from 0) of the next record
    parsed_steps,       \* the events pushed so far
    freeze_steps,       \* indices (from 0) of the steps that start a freeze
    chart,              \* Result of Chart::parse
    \* ---- Converter: SSQ::to_beatmaps
    file,               \* the decoded SSQ (`self`): tempo_changes and charts
    config,             \* the configuration: stops, shock_action
    timing_points,      \* the tempo markers, None until they are built
    converted_charts,   \* the charts converted so far
    chart_index,        \* index (from 0) of the chart in the outer loop
    step_index,         \* index (from 0) of the step in the inner loop
    hit_objects,        \* the hit objects of the chart in work, None between charts
    origins,            \* history: for each hit object, the index of its step
    beatmaps,           \* Result of to_beatmaps
    \* ---- File decode: SSQ::parse
    data,               \* the bytes of the file
    cursor,             \* how many of them the cursor has consumed
    ssq,                \* the SSQ under construction: tempo_changes, charts
    parsed,             \* Result of SSQ::parse, Unset while the loop runs
    \* ---- Batch conversion: SubCommand::BatchDDR2osu
    music,              \* musicdb.music: per song, the bytes of its SSQ file
    claimed,            \* the songs (indices from 1) handed to a worker so far
    worker,             \* per worker: where it is in the closure, and its entry
    pb,                 \* the progress bar and the owner of its mutex
    converted,          \* per song, what ddr2osu returned (Unset before)
    logged,             \* the songs named by error!(...), in order
    batch               \* how for_each ended, Unset while it runs

rowVars   == <<columns, players, other_columns, other_players, row, other, intersects>>
levelVars == <<level_call, level, levels, value>>
shockVars == <<shock_step_generator, emitted>>
tempoVars == <<overflow_checks, ticks_per_second, measure, tempo_data, tempo_changes,
               beats, time>>
chartVars == <<parameter, measures, steps, freeze_data, difficulty, freeze_iter, step,
               parsed_steps, freeze_steps, chart>>
convVars  == <<file, config, timing_points, converted_charts, chart_index, step_index,
               hit_objects, origins, beatmaps>>
fileVars  == <<data, cursor, ssq, parsed>>
batchVars == <<music, claimed, worker, pb, converted, logged, batch>>
vars      == <<rowVars, levelVars, shockVars, tempoVars, chartVars, convVars, fileVars,
               batchVars>>

Unset == [tag |-> "Unset"]
Ok(v) == [tag |-> "Ok", val |-> v]
Err(e, a) == [tag |-> "Err", err |-> e, arg |-> a]
Panic(why) == [tag |-> "Panic", why |-> why]
None == [tag |-> "None"]
Some(v) == [tag |-> "Some", val |-> v]

Byte == 0..255

RECURSIVE Pow2(_)
Pow2(n) == IF n = 0 THEN 1 ELSE 2 * Pow2(n - 1)

(***************************************************************************)
(* utils.rs                                                                *)
(***************************************************************************)
\* ((byte & (0b1 << n)) >> n) != 0
get_nth_bit(byte, n) ==
    LET masked == ((byte \div Pow2(n)) % 2) * Pow2(n)    \* byte & (1 << n)
    IN  (masked \div Pow2(n)) # 0

\* [bool; 8], index i of the array is element i+1 of the sequence
byte_to_bitarray(byte) == [i \in 1..8 |-> get_nth_bit(byte, i - 1)]

(***************************************************************************)
(* ssq.rs: PlayerRow and Row                                               *)
(***************************************************************************)
PlayerRow_from(byte) ==
    LET cols == byte_to_bitarray(byte)
    IN  [left |-> cols[1], down |-> cols[2], up |-> cols[3], right |-> cols[4]]

\* impl Into<Vec<bool>> for PlayerRow
PlayerRow_into_vec(p) == <<p.left, p.down, p.up, p.right>>

Single(p) == [variant |-> "Single", p1 |-> p, p2 |-> p]
Double(a, b) == [variant |-> "Double", p1 |-> a, p2 |-> b]

\* impl Into<Vec<bool>> for Row
Row_into_vec(r) ==
    IF r.variant = "Single"
    THEN PlayerRow_into_vec(r.p1)
    ELSE PlayerRow_into_vec(r.p1) \o PlayerRow_into_vec(r.p2)

\* Row::new with the second player's nibble not shifted down
Row_new_noshift(byte, pl) ==
    CASE pl = 1 -> Ok(Single(PlayerRow_from(byte)))
      [] pl = 2 -> Ok(Double(PlayerRow_from(byte), PlayerRow_from(byte)))
      [] OTHER  -> Err("InvalidPlayerCount", pl)

\* byte >> 4 on a u8
Row_new(byte, pl) ==
    CASE pl = 1 -> Ok(Single(PlayerRow_from(byte)))
      [] pl = 2 -> Ok(Double(PlayerRow_from(byte), PlayerRow_from(byte \div 16)))
      [] OTHER  -> Err("InvalidPlayerCount", pl)

RECURSIVE SumBools(_)
SumBools(s) == IF s = <<>> THEN 0
               ELSE (IF Head(s) THEN 1 ELSE 0) + SumBools(Tail(s))

\* the count that tells only whether any column is active
Row_count_active_any(r) ==
    IF \E i \in DOMAIN Row_into_vec(r) : Row_into_vec(r)[i] THEN 1 ELSE 0

Row_count_active(r) ==
    LET rows == IF r.variant = "Single"
                THEN PlayerRow_into_vec(r.p1)
                ELSE PlayerRow_into_vec(r.p1) \o PlayerRow_into_vec(r.p2)
    IN  SumBools(rows) % 256

\* the (self_row, other_row) pairs the match builds
IntersectPairs(self, oth) ==
    CASE self.variant = "Single" /\ oth.variant = "Single" ->
            << <<PlayerRow_into_vec(self.p1), PlayerRow_into_vec(oth.p1)>> >>
      [] self.variant = "Double" /\ oth.variant = "Double" ->
            << <<PlayerRow_into_vec(self.p1), PlayerRow_into_vec(oth.p1)>>,
               <<PlayerRow_into_vec(self.p2), PlayerRow_into_vec(oth.p2)>> >>
      [] OTHER -> <<>>

\* Row::intersects testing only self_col == other_col
Row_intersects_eq(self, oth) ==
    LET rows == IntersectPairs(self, oth)
    IN  \E k \in 1..Len(rows) :
          \E c \in 1..Len(rows[k][1]) :
             c <= Len(rows[k][2]) /\ rows[k][1][c] = rows[k][2][c]

\* the nested loop returns true at the first zipped column pair with
\* *self_col && self_col == other_col, false when there is none
Row_intersects(self, oth) ==
    LET rows == IntersectPairs(self, oth)
    IN  \E k \in 1..Len(rows) :
          \E c \in 1..Len(rows[k][1]) :
             c <= Len(rows[k][2])
             /\ rows[k][1][c] /\ rows[k][1][c] = rows[k][2][c]

(***************************************************************************)
(* ssq.rs: Level                                                           *)
(***************************************************************************)
\* ssq_to_ordered with the codes mapped in numeric order
Level_ssq_to_ordered_numeric(ssq_difficulty) ==
    CASE ssq_difficulty = 1 -> Ok(0)
      [] ssq_difficulty = 2 -> Ok(1)
      [] ssq_difficulty = 3 -> Ok(2)
      [] ssq_difficulty = 4 -> Ok(3)
      [] ssq_difficulty = 6 -> Ok(4)
      [] OTHER -> Err("InvalidDifficulty", ssq_difficulty)

Level_ssq_to_ordered(ssq_difficulty) ==
    CASE ssq_difficulty = 4 -> Ok(0)
      [] ssq_difficulty = 1 -> Ok(1)
      [] ssq_difficulty = 2 -> Ok(2)
      [] ssq_difficulty = 3 -> Ok(3)
      [] ssq_difficulty = 6 -> Ok(4)
      [] OTHER -> Err("InvalidDifficulty", ssq_difficulty)

Level_new(pl, ssq_difficulty) ==
    IF pl \notin {1, 2}
    THEN Err("InvalidPlayerCount", pl)
    ELSE LET ordered == Level_ssq_to_ordered(ssq_difficulty)
         IN  IF ordered.tag = "Err" THEN ordered
             ELSE Ok([players |-> pl, difficulty |-> ordered.val])

\* f32::from(difficulty) / 4.0, in hundredths (0, 25, 50, 75, 100 are exact)
Level_relative_difficulty(l) == (l.difficulty * 100) \div 4

\* try_from taking the player count from the whole low byte
\* the index with a stride of 4 (one per column) instead of 5
Level_to_value_index_stride4(l) == l.difficulty + (l.players - 1) * 4

\* Level::to_value: the index into the level table, computed in u8
Level_to_value_index(l) == l.difficulty + (l.players - 1) * 5

\* Level::to_value: levels[index], a panic when the table is too short
Level_to_value(l, table) ==
    IF Level_to_value_index(l) < Len(table)
    THEN Ok(table[Level_to_value_index(l) + 1])
    ELSE Panic("index out of bounds")

Level_try_from_lowbyte(param) ==
    Level_new((param % 256) \div 4, (param \div 256) % 256)

\* players = (parameter & 0xF) as u8 / 4; difficulty = ((parameter & 0xFF00) >> 8) as u8
Level_try_from(param) ==
    Level_new((param % 16) \div 4, (param \div 256) % 256)

(***************************************************************************)
(* ddr2osu.rs: ShockStepGenerator                                          *)
(***************************************************************************)
ShockStepGenerator_new(cols, mode) == [last |-> 0, columns |-> cols, mode |-> mode]

\* the match on self.last
ShockPair(last) ==
    CASE last \in {0, 3} -> <<0, 3>>
      [] last \in {1, 2} -> <<1, 2>>
      [] last \in {4, 7} -> <<4, 7>>
      [] last \in {5, 6} -> <<5, 6>>
      [] OTHER -> <<>>

\* next() choosing the pair by the parity of the call within each player
ShockStepGenerator_next_alternating(g) ==
    IF g.mode = "Ignore"
    THEN [item |-> None, gen |-> g]
    ELSE [item |-> Some(CASE g.last = 0 -> <<0, 3>>
                          [] g.last = 1 -> <<1, 2>>
                          [] g.last = 2 -> <<4, 7>>
                          [] g.last = 3 -> <<5, 6>>
                          [] OTHER -> <<>>),
          gen  |-> [g EXCEPT !.last = (g.last + 1) % (g.columns \div 2)]]

\* next() with the column position not wrapped at the column count
ShockStepGenerator_next_nowrap(g) ==
    IF g.mode = "Ignore"
    THEN [item |-> None, gen |-> g]
    ELSE [item |-> Some(ShockPair(g.last)),
          gen  |-> [g EXCEPT !.last = (g.last + 1) % 256]]

\* Iterator::next: the item returned and the generator afterwards
\* (columns is 4 or 8 here, so last + 1 never leaves u8 and the modulus is not 0)
ShockStepGenerator_next(g) ==
    IF g.mode = "Ignore"
    THEN [item |-> None, gen |-> g]
    ELSE [item |-> Some(ShockPair(g.last)),
          gen  |-> [g EXCEPT !.last = (g.last + 1) % g.columns]]

\* shock_step_generator.next().unwrap_or_else(Vec::new) in Step::to_hit_objects
ShockColumns(item) == IF item.tag = "Some" THEN item.val ELSE <<>>

(***************************************************************************)
(* u32 arithmetic on two 16-bit limbs                                      *)
(***************************************************************************)
Limb == Pow2(16)

\* n in 0 .. 2^31-1 as a u32
ToU32(n) == [hi |-> n \div Limb, lo |-> n % Limb]
U32Zero == [hi |-> 0, lo |-> 0]
U32Max == [hi |-> Limb - 1, lo |-> Limb - 1]

U32Less(a, b) == a.hi < b.hi \/ (a.hi = b.hi /\ a.lo < b.lo)
U32Leq(a, b) == a = b \/ U32Less(a, b)

\* a + b: the wrapped sum and whether it left u32
U32Add(a, b) ==
    LET lo == a.lo + b.lo
        hi == a.hi + b.hi + (lo \div Limb)
    IN  [val |-> [hi |-> hi % Limb, lo |-> lo % Limb], overflow |-> hi >= Limb]

\* k * a for 0 <= k < 2^15: the wrapped product and whether it left u32
U32MulSmall(k, a) ==
    LET lo == k * a.lo
        hi == k * a.hi + (lo \div Limb)
    IN  [val |-> [hi |-> hi % Limb, lo |-> lo % Limb], overflow |-> hi >= Limb]

\* a / d for 0 < d < 2^15 (integer division)
U32DivSmall(a, d) ==
    LET r == a.hi % d
    IN  [hi |-> a.hi \div d, lo |-> (r * Limb + a.lo) \div d]

\* floor(k * a / d) saturated at u32::MAX, for 0 <= k < 2^15, 0 < d < 2^15
U32MulDivSat(k, a, d) ==
    LET lo == k * a.lo
        hi == k * a.hi + (lo \div Limb)       \* k*a = hi * 2^16 + lo % 2^16
        q1 == hi \div d
        r1 == hi % d
        q0 == (r1 * Limb + (lo % Limb)) \div d
    IN  IF q1 >= Limb THEN U32Max ELSE [hi |-> q1, lo |-> q0]

(***************************************************************************)
(* ssq.rs: measure_to_beats and TempoChanges::parse                        *)
(***************************************************************************)
MEASURE_LENGTH == 4096

\* 4.0 * measure as f32 / MEASURE_LENGTH, as the numerator over MEASURE_LENGTH
measure_to_beats(m) == 4 * m

Abs(x) == IF x < 0 THEN -x ELSE x

\* One pass of the loop `for i in 1..count` (i is the 1-based index of the
\* newer entry), then the rest.  oc is the build's setting: an
\* arithmetic overflow panics with it and wraps without it.
RECURSIVE TempoLoop(_, _, _, _, _, _, _, _)
TempoLoop(oc, tps, meas, ticks, i, elapsed_ms, elapsed_beats, entries) ==
    IF i > Len(meas) THEN Ok(entries)
    ELSE
      LET delta_measure == Abs(meas[i] - meas[i - 1])
          delta_ticks   == Abs(ticks[i] - ticks[i - 1])
          product       == U32MulSmall(1000, ToU32(delta_ticks))
          length_ms     == U32DivSmall(product.val, tps)
          length_beats  == measure_to_beats(delta_measure)
          entry == [start_ms    |-> elapsed_ms,
                    start_beats |-> elapsed_beats,
                    end_beats   |-> elapsed_beats + length_beats,
                    \* length_ms as f32 / length_beats, kept as the two operands
                    beat_length |-> [ms |-> length_ms, beats |-> length_beats]]
          total == U32Add(elapsed_ms, length_ms)
      IN  IF product.overflow /\ oc THEN Panic("attempt to multiply with overflow")
          ELSE IF tps = 0 THEN Panic("attempt to divide by zero")
          ELSE IF total.overflow /\ oc THEN Panic("attempt to add with overflow")
          ELSE TempoLoop(oc, tps, meas, ticks, i + 1, total.val,
                         elapsed_beats + length_beats, Append(entries, entry))

\* TempoChanges::parse on the decoded arrays (both of length count)
TempoChanges_parse(oc, tps, meas, ticks) ==
    TempoLoop(oc, tps, meas, ticks, 2, U32Zero, 0, <<>>)

(***************************************************************************)
(* ddr2osu.rs: get_time_from_beats                                         *)
(***************************************************************************)
\* |x| < 0.001 for x counted in 1/MEASURE_LENGTH beats
WithinTolerance(x) == Abs(x) * 1000 < MEASURE_LENGTH

\* ((beats - start_beats) * beat_length) as u32: the cast saturates and
\* sends NaN to 0
ScaledOffset(d, beat_length) ==
    IF beat_length.beats = 0
    THEN IF beat_length.ms = U32Zero \/ d <= 0 THEN U32Zero   \* NaN, -inf
         ELSE U32Max                                         \* +inf
    ELSE IF d <= 0 THEN U32Zero
         ELSE U32MulDivSat(d, beat_length.ms, beat_length.beats)

RECURSIVE TimeScan(_, _, _, _)
TimeScan(oc, b, tc, k) ==
    IF k > Len(tc) THEN None
    ELSE IF WithinTolerance(b - tc[k].start_beats) /\ WithinTolerance(b - tc[k].end_beats)
         THEN Some(tc[k].start_ms)
    ELSE IF b < tc[k].end_beats
         THEN LET sum == U32Add(tc[k].start_ms,
                                ScaledOffset(b - tc[k].start_beats, tc[k].beat_length))
              IN  IF sum.overflow /\ oc
                  THEN Panic("attempt to add with overflow")
                  ELSE Some(sum.val)
    ELSE TimeScan(oc, b, tc, k + 1)

get_time_from_beats(oc, b, tc) == TimeScan(oc, b, tc, 1)

(***************************************************************************)
(* ssq.rs: Step and the helpers of Chart::parse                            *)
(***************************************************************************)
Step_Step(b, r) == [kind |-> "Step", beats |-> b, row |-> r]
Step_Freeze(s, e, r) == [kind |-> "Freeze", start |-> s, end |-> e, row |-> r]
Step_Shock(b) == [kind |-> "Shock", beats |-> b]

\* freeze_data.iter().skip_while(|x| **x == 0)
RECURSIVE SkipZeros(_)
SkipZeros(bytes) ==
    IF bytes # <<>> /\ Head(bytes) = 0 THEN SkipZeros(Tail(bytes)) ELSE bytes

\* steps[step] == 0xff || steps[step] == 0xf
IsShock(mask) == mask = 255 \/ mask = 15

\* the loop of find_last from index k (from 1) downwards; 0 when nothing matches
RECURSIVE FindLastFrom(_, _, _)
FindLastFrom(ss, r, k) ==
    IF k = 0 THEN 0
    ELSE IF ss[k].kind = "Step" /\ Row_intersects(ss[k].row, r) THEN k
    ELSE FindLastFrom(ss, r, k - 1)

\* the search run forwards: the index (from 0) of the first Step whose row
\* intersects
Chart_find_first(ss, r) ==
    LET hits == {k \in DOMAIN ss : ss[k].kind = "Step" /\ Row_intersects(ss[k].row, r)}
    IN  IF hits = {} THEN None
        ELSE Some((CHOOSE k \in hits : \A j \in hits : k <= j) - 1)

\* Chart::find_last: the index (from 0) of the last Step whose row intersects
Chart_find_last(ss, r) ==
    LET k == FindLastFrom(ss, r, Len(ss))
    IN  IF k = 0 THEN None ELSE Some(k - 1)

\* Vec::dedup: consecutive equal elements collapse to one
RECURSIVE Dedup(_)
Dedup(s) ==
    IF Len(s) <= 1 THEN s
    ELSE IF s[1] = s[2] THEN Dedup(Tail(s))
    ELSE <<s[1]>> \o Dedup(Tail(s))

\* Vec::remove(i) for an index (from 0) inside the vector
RemoveAt(s, i) == SubSeq(s, 1, i) \o SubSeq(s, i + 2, Len(s))

\* for i in freeze_steps.iter().rev() { parsed_steps.remove(*i) }, from
\* position k of fs downwards; Vec::remove panics on an index out of bounds
RECURSIVE RemoveRev(_, _, _)
RemoveRev(ss, fs, k) ==
    IF k = 0 THEN Ok(ss)
    ELSE IF fs[k] >= Len(ss) THEN Panic("removal index out of bounds")
    ELSE RemoveRev(RemoveAt(ss, fs[k]), fs, k - 1)

\* the cleanup left out: every parsed step is kept
RemoveFreezeSteps_keep(ss, fs) == Ok(ss)

\* freeze_steps.dedup(), then the removal loop
RemoveFreezeSteps(ss, fs) == RemoveRev(ss, Dedup(fs), Len(Dedup(fs)))

(***************************************************************************)
(* Cursor reads (byteorder, mini_parser.rs); pos counts the bytes consumed *)
(***************************************************************************)
\* read_u16::<LE>
read_u16(bytes, pos) ==
    IF pos + 2 > Len(bytes) THEN Err("IOError", 0)
    ELSE Ok(bytes[pos + 1] + 256 * bytes[pos + 2])

\* read_i32::<LE>: two's complement of the four bytes
read_i32(bytes, pos) ==
    IF pos + 4 > Len(bytes) THEN Err("IOError", 0)
    ELSE Ok(bytes[pos + 1] + 256 * bytes[pos + 2] + 65536 * bytes[pos + 3]
            + 16777216 * (IF bytes[pos + 4] >= 128
                          THEN bytes[pos + 4] - 256 ELSE bytes[pos + 4]))

\* read_u32::<LE> (the files drawn keep every count below 2^31)
read_u32(bytes, pos) ==
    IF pos + 4 > Len(bytes) THEN Err("IOError", 0)
    ELSE Ok(bytes[pos + 1] + 256 * bytes[pos + 2] + 65536 * bytes[pos + 3]
            + 16777216 * bytes[pos + 4])

\* MiniParser::read_n_i32
read_n_i32(bytes, pos, n) ==
    IF pos + 4 * n > Len(bytes) THEN Err("MiniParserError", 0)
    ELSE Ok([k \in 1..n |-> read_i32(bytes, pos + 4 * (k - 1)).val])

(***************************************************************************)
(* ssq.rs: TempoChanges::parse and Chart::parse on the bytes of a chunk    *)
(***************************************************************************)
\* TempoChanges::parse from the chunk's payload
TempoChanges_parse_data(oc, tps, bytes) ==
    LET count == read_u32(bytes, 0)
        meas == read_n_i32(bytes, 4, count.val)
        ticks == read_n_i32(bytes, 4 + 4 * count.val, count.val)
    IN  IF count.tag = "Err" THEN count
        ELSE IF meas.tag = "Err" THEN meas
        ELSE IF ticks.tag = "Err" THEN ticks
        ELSE TempoChanges_parse(oc, tps, meas.val, ticks.val)

\* the loop `for step in 0..count` of Chart::parse from record k (from 0) on,
\* with the freeze iterator fi, the parsed steps ps and the freeze steps fs
RECURSIVE ChartLoop(_, _, _, _, _, _, _)
ChartLoop(pl, meas, masks, fi, k, ps, fs) ==
    IF k = Len(masks) THEN RemoveFreezeSteps(ps, fs)
    ELSE IF meas[k + 1] < 0 THEN Err("TryFromIntError", meas[k + 1])
    ELSE LET b == measure_to_beats(meas[k + 1])
             mask == masks[k + 1]
         IN  IF IsShock(mask)
             THEN ChartLoop(pl, meas, masks, fi, k + 1, Append(ps, Step_Shock(b)), fs)
             ELSE IF mask = 0
             THEN IF Len(fi) < 2 THEN Err("NotEnoughFreezeData", 0)
                  ELSE IF fi[2] # 1
                  THEN ChartLoop(pl, meas, masks, Tail(Tail(fi)), k + 1, ps, fs)
                  ELSE LET r == Row_new(fi[1], pl).val
                           last_step == Chart_find_last(ps, r)
                       IN  IF Row_count_active(r) # 1
                           THEN ChartLoop(pl, meas, masks, Tail(Tail(fi)), k + 1, ps, fs)
                           ELSE IF last_step.tag = "Some"
                           THEN ChartLoop(pl, meas, masks, Tail(Tail(fi)), k + 1,
                                          Append(ps, Step_Freeze(ps[last_step.val + 1].beats,
                                                                 b, r)),
                                          Append(fs, last_step.val))
                           ELSE ChartLoop(pl, meas, masks, Tail(Tail(fi)), k + 1,
                                          Append(ps, Step_Step(b, r)), fs)
             ELSE ChartLoop(pl, meas, masks, fi, k + 1,
                            Append(ps, Step_Step(b, Row_new(mask, pl).val)), fs)

\* Chart::parse on the decoded arrays
Chart_parse_arrays(param, meas, masks, freeze) ==
    LET lvl == Level_try_from(param)
        cleaned == ChartLoop(lvl.val.players, meas, masks, SkipZeros(freeze), 0, <<>>, <<>>)
    IN  IF lvl.tag = "Err" THEN lvl
        ELSE IF cleaned.tag = "Ok"
        THEN Ok([difficulty |-> lvl.val, steps |-> cleaned.val])
        ELSE cleaned

\* Chart::parse from the chunk's payload
Chart_parse(bytes, param) ==
    LET lvl == Level_try_from(param)
        count == read_u32(bytes, 0)
        meas == read_n_i32(bytes, 4, count.val)
        after == 4 + 4 * count.val
    IN  IF lvl.tag = "Err" THEN lvl
        ELSE IF count.tag = "Err" THEN count
        ELSE IF meas.tag = "Err" THEN meas
        ELSE IF after + count.val > Len(bytes) THEN Err("IOError", 0)
        ELSE Chart_parse_arrays(param, meas.val,
                                SubSeq(bytes, after + 1, after + count.val),
                                SubSeq(bytes, after + count.val + 1, Len(bytes)))

(***************************************************************************)
(* ssq.rs: SSQ::parse, one chunk                                           *)
(***************************************************************************)
\* a chart pushed in front of the charts decoded before
PushChart_front(s, c) == [s EXCEPT !.charts = <<c>> \o @]

\* ssq.charts.push(chart)
PushChart(s, c) == [s EXCEPT !.charts = Append(@, c)]

\* a failure answered with what has been decoded so far
Propagate_partial(s, e) == IF e.tag = "Err" THEN Ok(s) ELSE e

\* the `?` of SSQ::parse: the function returns the error, ssq is dropped
Propagate(s, e) == e

\* one pass of the loop of SSQ::parse with the cursor at pos: `what` names
\* the branch taken, `result` is what parse returns when the pass ends it
\* (Unset when the loop goes on), `ssq` and `cursor` are the values afterwards
SSQ_chunk(oc, bytes, pos, s) ==
    LET length == read_i32(bytes, pos)
        chunk_type == read_u16(bytes, pos + 4)
        param == read_u16(bytes, pos + 6)
        stop(w, r) == [what |-> w, result |-> r, ssq |-> s, cursor |-> pos]
    IN  IF length.tag = "Err" THEN stop("read", Propagate(s, length))
        ELSE IF length.val < 0
        THEN stop("read", Propagate(s, Err("TryFromIntError", length.val)))
        ELSE IF length.val = 0
        THEN [what |-> "end", result |-> Ok(s), ssq |-> s, cursor |-> pos + 4]
        ELSE IF chunk_type.tag = "Err" THEN stop("read", Propagate(s, chunk_type))
        ELSE IF param.tag = "Err" THEN stop("read", Propagate(s, param))
        ELSE IF length.val < 8
        THEN stop("read", IF oc THEN Panic("attempt to subtract with overflow")
                                ELSE Panic("capacity overflow"))
        ELSE IF pos + length.val > Len(bytes)
        THEN stop("read", Propagate(s, Err("IOError", 0)))
        ELSE LET payload == SubSeq(bytes, pos + 9, pos + length.val)
             IN  IF chunk_type.val = 1
                 THEN LET tc == TempoChanges_parse_data(oc, param.val, payload)
                      IN  IF tc.tag = "Ok"
                          THEN [what |-> "tempo", result |-> Unset,
                                ssq |-> [s EXCEPT !.tempo_changes = tc.val],
                                cursor |-> pos + length.val]
                          ELSE stop("tempo", Propagate(s, tc))
                 ELSE IF chunk_type.val = 3
                 THEN LET c == Chart_parse(payload, param.val)
                      IN  IF c.tag = "Ok"
                          THEN [what |-> "chart", result |-> Unset,
                                ssq |-> PushChart(s, c.val),
                                cursor |-> pos + length.val]
                          ELSE stop("chart", Propagate(s, c))
                 ELSE [what |-> "other", result |-> Unset, ssq |-> s,
                       cursor |-> pos + length.val]

(***************************************************************************)
(* ddr2osu.rs: timing points and Step::to_hit_objects                      *)
(***************************************************************************)
\* beat_length == f32::INFINITY: a positive length_ms divided by 0.0 beats
\* (0.0 / 0.0 is NaN, which is not equal to INFINITY)
IsInfinity(beat_length) == beat_length.beats = 0 /\ beat_length.ms # U32Zero

\* 10000.0 as a beat length
TenSeconds == [ms |-> ToU32(10000), beats |-> MEASURE_LENGTH]

\* impl From<TempoChange> for TimingPoint (the constant fields left out)
TimingPoint_from(tempo_change) ==
    [time        |-> tempo_change.start_ms,
     beat_length |-> IF IsInfinity(tempo_change.beat_length)
                     THEN TenSeconds
                     ELSE tempo_change.beat_length]

\* the filter with the stop flag never consulted
RECURSIVE TimingPoints_unfiltered(_, _)
TimingPoints_unfiltered(tc, stops) ==
    IF tc = <<>> THEN <<>>
    ELSE <<TimingPoint_from(Head(tc))>> \o TimingPoints_unfiltered(Tail(tc), stops)

\* the first loop of to_beatmaps
RECURSIVE TimingPoints_of(_, _)
TimingPoints_of(tc, stops) ==
    IF tc = <<>> THEN <<>>
    ELSE (IF stops \/ ~IsInfinity(Head(tc).beat_length)
          THEN <<TimingPoint_from(Head(tc))>>
          ELSE <<>>) \o TimingPoints_of(Tail(tc), stops)

\* HitObject::HitCircle; x is column_to_x(column, columns), kept as its arguments
HitCircle(column, num_columns, t) ==
    [kind |-> "HitCircle", column |-> column, columns |-> num_columns, time |-> t]

HitObject_Hold(column, num_columns, t, end_time) ==
    [kind |-> "Hold", column |-> column, columns |-> num_columns,
     time |-> t, end_time |-> end_time]

\* the columns (from 0) that `columns.iter().enumerate()` finds active, in order
RECURSIVE ActiveFrom(_, _)
ActiveFrom(flags, k) ==
    IF k > Len(flags) THEN <<>>
    ELSE (IF flags[k] THEN <<k - 1>> ELSE <<>>) \o ActiveFrom(flags, k + 1)

ActiveColumns(r) == ActiveFrom(Row_into_vec(r), 1)

\* the Step arm pushing a single circle for the row
Tap_to_hit_objects_single(st, num_columns, tc) ==
    LET t == get_time_from_beats(overflow_checks, st.beats, tc)
    IN  IF t.tag = "Some" THEN Some(<<HitCircle(0, num_columns, t.val)>>) ELSE t

\* the arm Step::Step of to_hit_objects: a circle per active column, or None
\* (the panic of the time computation is passed on)
Tap_to_hit_objects(st, num_columns, tc) ==
    LET t == get_time_from_beats(overflow_checks, st.beats, tc)
        cols == ActiveColumns(st.row)
    IN  IF t.tag = "Some"
        THEN Some([k \in 1..Len(cols) |-> HitCircle(cols[k], num_columns, t.val)])
        ELSE t

\* the Freeze arm asking for the start time only
Freeze_to_hit_objects_start_only(st, num_columns, tc) ==
    LET t == get_time_from_beats(overflow_checks, st.start, tc)
        cols == ActiveColumns(st.row)
    IN  IF t.tag = "Some"
        THEN Some([k \in 1..Len(cols) |->
                      HitObject_Hold(cols[k], num_columns, t.val, t.val)])
        ELSE t

\* the arm Step::Freeze of to_hit_objects
Freeze_to_hit_objects(st, num_columns, tc) ==
    LET t == get_time_from_beats(overflow_checks, st.start, tc)
        end_time == get_time_from_beats(overflow_checks, st.end, tc)
        cols == ActiveColumns(st.row)
    IN  IF t.tag = "Panic" THEN t
        ELSE IF end_time.tag = "Panic" THEN end_time
        ELSE IF t.tag = "Some" /\ end_time.tag = "Some"
        THEN Some([k \in 1..Len(cols) |->
                      HitObject_Hold(cols[k], num_columns, t.val, end_time.val)])
        ELSE None

\* the Shock arm asking the generator only once the time is known
Shock_to_hit_objects_lazy(st, num_columns, tc, gen) ==
    LET t == get_time_from_beats(overflow_checks, st.beats, tc)
        r == ShockStepGenerator_next(gen)
        cols == ShockColumns(r.item)
    IN  IF t.tag = "Some"
        THEN [objs |-> Some([k \in 1..Len(cols) |->
                                HitCircle(cols[k], num_columns, t.val)]),
              gen |-> r.gen, called |-> TRUE]
        ELSE [objs |-> t, gen |-> gen, called |-> FALSE]

\* the arm Step::Shock of to_hit_objects: next() is called first; the time
\* is computed inside the loop over the columns, so not at all without columns
Shock_to_hit_objects(st, num_columns, tc, gen) ==
    LET r == ShockStepGenerator_next(gen)
        cols == ShockColumns(r.item)
        t == get_time_from_beats(overflow_checks, st.beats, tc)
    IN  [objs |-> IF cols = <<>> THEN Some(<<>>)
                  ELSE IF t.tag = "Some"
                  THEN Some([k \in 1..Len(cols) |->
                                HitCircle(cols[k], num_columns, t.val)])
                  ELSE t,
         gen |-> r.gen, called |-> TRUE]

\* Step::to_hit_objects: the Option returned (or the panic of the time
\* computation), the generator afterwards and whether next() was called
Step_to_hit_objects(st, num_columns, tc, gen) ==
    IF st.kind = "Step"
    THEN [objs |-> Tap_to_hit_objects(st, num_columns, tc),
          gen |-> gen, called |-> FALSE]
    ELSE IF st.kind = "Freeze"
    THEN [objs |-> Freeze_to_hit_objects(st, num_columns, tc),
          gen |-> gen, called |-> FALSE]
    ELSE Shock_to_hit_objects(st, num_columns, tc, gen)

(***************************************************************************)
(* Idle values of each harness                                             *)
(***************************************************************************)
RowIdle ==
    /\ columns = 0 /\ players = 0 /\ other_columns = 0 /\ other_players = 0
    /\ row = Unset /\ other = Unset /\ intersects = Unset

LevelIdle ==
    /\ level_call = [fn |-> "none", a |-> 0, b |-> 0] /\ level = Unset
    /\ levels = <<>> /\ value = Unset

ShockIdle ==
    /\ shock_step_generator = [last |-> 0, columns |-> 0, mode |-> "Ignore"]
    /\ emitted = <<>>

TempoIdle ==
    /\ overflow_checks = FALSE
    /\ ticks_per_second = 0 /\ measure = <<>> /\ tempo_data = <<>>
    /\ tempo_changes = Unset /\ beats = 0 /\ time = Unset

ChartIdle ==
    /\ parameter = 0 /\ measures = <<>> /\ steps = <<>> /\ freeze_data = <<>>
    /\ difficulty = Unset /\ freeze_iter = <<>> /\ step = 0
    /\ parsed_steps = <<>> /\ freeze_steps = <<>> /\ chart = Unset

ConvIdle ==
    /\ file = [tempo_changes |-> <<>>, charts |-> <<>>]
    /\ config = [stops |-> FALSE, shock_action |-> "Ignore"]
    /\ timing_points = None /\ converted_charts = <<>>
    /\ chart_index = 0 /\ step_index = 0
    /\ hit_objects = None /\ origins = <<>> /\ beatmaps = Unset

FileIdle ==
    /\ data = <<>> /\ cursor = 0
    /\ ssq = [tempo_changes |-> <<>>, charts |-> <<>>]
    /\ parsed = Unset

BatchIdle ==
    /\ music = <<>> /\ claimed = {} /\ worker = <<>>
    /\ pb = [owner |-> 0, total |-> 0, current |-> 0, message |-> 0, ticks |-> 0]
    /\ converted = <<>> /\ logged = <<>> /\ batch = Unset

(***************************************************************************)
(* SpecRow: the Bit-Row model applied to drawn arguments                   *)
(***************************************************************************)
\* second bytes the intersection is tried against
OtherBytes == {0, 1, 2, 4, 8, 9, 6, 15, 16, 32, 64, 128, 85, 170, 96, 132, 240, 255}
PlayerArgs == {0, 1, 2, 3, 255}

InitRow ==
    /\ columns \in Byte /\ players \in PlayerArgs
    /\ other_columns \in OtherBytes \cup {columns} /\ other_players \in {1, 2}
    /\ row = Unset /\ other = Unset /\ intersects = Unset
    /\ LevelIdle /\ ShockIdle /\ TempoIdle /\ ChartIdle /\ ConvIdle /\ FileIdle /\ BatchIdle

RowNew ==
    /\ row.tag = "Unset"
    /\ row' = Row_new(columns, players)
    /\ other' = Row_new(other_columns, other_players)
    /\ UNCHANGED <<columns, players, other_columns, other_players, intersects>>
    /\ UNCHANGED <<levelVars, shockVars, tempoVars, chartVars, convVars, fileVars, batchVars>>

RowIntersects ==
    /\ row.tag = "Ok" /\ other.tag = "Ok" /\ intersects.tag = "Unset"
    /\ intersects' = Ok([self_other |-> Row_intersects(row.val, other.val),
                         self_self  |-> Row_intersects(row.val, row.val),
                         count_active |-> Row_count_active(row.val)])
    /\ UNCHANGED <<columns, players, other_columns, other_players, row, other>>
    /\ UNCHANGED <<levelVars, shockVars, tempoVars, chartVars, convVars, fileVars, batchVars>>

NextRow == RowNew \/ RowIntersects

SpecRow == InitRow /\ [][NextRow]_vars

(***************************************************************************)
(* SpecLevel: Level::new and Level::try_from applied to drawn arguments    *)
(***************************************************************************)
\* the level tables handed to to_value: two strictly increasing ones and the
\* table of a song whose double levels restart below its single levels
LevelTables ==
    {<<1, 2, 3, 4, 5, 6, 7, 8, 9, 10>>,
     <<2, 4, 7, 11, 13, 14, 15, 17, 18, 19>>,
     <<3, 5, 8, 12, 15, 5, 8, 12, 15, 15>>}

InitLevel ==
    /\ \/ \E p \in 0..65535 : level_call = [fn |-> "try_from", a |-> p, b |-> 0]
       \/ \E pl \in Byte, d \in Byte : level_call = [fn |-> "new", a |-> pl, b |-> d]
    /\ level = Unset
    /\ levels \in LevelTables /\ value = Unset
    /\ RowIdle /\ ShockIdle /\ TempoIdle /\ ChartIdle /\ ConvIdle /\ FileIdle /\ BatchIdle

LevelTryFrom ==
    /\ level.tag = "Unset" /\ level_call.fn = "try_from"
    /\ level' = Level_try_from(level_call.a)
    /\ UNCHANGED <<level_call, levels, value, rowVars, shockVars, tempoVars, chartVars, convVars, fileVars, batchVars>>

LevelNew ==
    /\ level.tag = "Unset" /\ level_call.fn = "new"
    /\ level' = Level_new(level_call.a, level_call.b)
    /\ UNCHANGED <<level_call, levels, value, rowVars, shockVars, tempoVars, chartVars, convVars, fileVars, batchVars>>

LevelToValue ==
    /\ level.tag = "Ok" /\ value.tag = "Unset"
    /\ value' = Level_to_value(level.val, levels)
    /\ UNCHANGED <<level_call, level, levels, rowVars, shockVars, tempoVars, chartVars, convVars, fileVars, batchVars>>

NextLevel == LevelTryFrom \/ LevelNew \/ LevelToValue

SpecLevel == InitLevel /\ [][NextLevel]_vars


(***************************************************************************)
(* SpecShock: one generator, called again and again                        *)
(***************************************************************************)
MaxCalls == 26

InitShock ==
    /\ \E cols \in {4, 8}, mode \in {"Ignore", "Step"} :
          shock_step_generator = ShockStepGenerator_new(cols, mode)
    /\ emitted = <<>>
    /\ RowIdle /\ LevelIdle /\ TempoIdle /\ ChartIdle /\ ConvIdle /\ FileIdle /\ BatchIdle

ShockNext ==
    /\ Len(emitted) < MaxCalls
    /\ LET r == ShockStepGenerator_next(shock_step_generator)
       IN  /\ shock_step_generator' = r.gen
           /\ emitted' = Append(emitted, r.item)
    /\ UNCHANGED <<rowVars, levelVars, tempoVars, chartVars, convVars, fileVars, batchVars>>

NextShock == ShockNext

SpecShock == InitShock /\ [][NextShock]_vars

(***************************************************************************)
(* SpecTempo: a tempo chunk is decoded, then beats are resolved against it *)
(***************************************************************************)
MaxTempoEntries == 4

TickRates == {0, 1, 1000}
MeasureAnchors == {0, 4096}
MeasureDeltas == {-1024, 0, 1}
TickAnchors == {0, 500}
TickDeltas == {-3000000, 0, 500, 5000000}

\* the arrays of n entries that start at an anchor and move by a delta
RECURSIVE Walks(_, _, _)
Walks(n, Anchors, Deltas) ==
    IF n = 0 THEN {<<>>}
    ELSE IF n = 1 THEN {<<a>> : a \in Anchors}
    ELSE {Append(w, w[Len(w)] + d) : w \in Walks(n - 1, Anchors, Deltas), d \in Deltas}

Range(f) == {f[i] : i \in DOMAIN f}

\* the beats asked for: every segment's start, end and middle
QueryBeats(tc) ==
    UNION {{tc[k].start_beats, tc[k].end_beats,
            (tc[k].start_beats + tc[k].end_beats) \div 2} : k \in DOMAIN tc}

InitTempo ==
    /\ overflow_checks \in BOOLEAN
    /\ ticks_per_second \in TickRates
    /\ \E n \in 0..MaxTempoEntries :
          /\ measure \in Walks(n, MeasureAnchors, MeasureDeltas)
          /\ tempo_data \in Walks(n, TickAnchors, TickDeltas)
    /\ tempo_changes = Unset /\ beats = 0 /\ time = Unset
    /\ RowIdle /\ LevelIdle /\ ShockIdle /\ ChartIdle /\ ConvIdle /\ FileIdle /\ BatchIdle

TempoParse ==
    /\ tempo_changes.tag = "Unset"
    /\ tempo_changes' = TempoChanges_parse(overflow_checks, ticks_per_second,
                                           measure, tempo_data)
    /\ UNCHANGED <<overflow_checks, ticks_per_second, measure, tempo_data, beats, time>>
    /\ UNCHANGED <<rowVars, levelVars, shockVars, chartVars, convVars, fileVars, batchVars>>

Resolve ==
    /\ tempo_changes.tag = "Ok" /\ time.tag = "Unset"
    /\ \E b \in QueryBeats(tempo_changes.val) :
          /\ beats' = b
          /\ time' = get_time_from_beats(overflow_checks, b, tempo_changes.val)
    /\ UNCHANGED <<overflow_checks, ticks_per_second, measure, tempo_data, tempo_changes>>
    /\ UNCHANGED <<rowVars, levelVars, shockVars, chartVars, convVars, fileVars, batchVars>>

NextTempo == TempoParse \/ Resolve

SpecTempo == InitTempo /\ [][NextTempo]_vars

(***************************************************************************)
(* Spec: Chart::parse on a step chunk, one record of the loop per step     *)
(***************************************************************************)
MaxCount == 2

\* 0x0104: 1 player, code 1; 0x0108: 2 players, code 1; 0x0100: no player
Parameters == {260, 264, 256}
\* the chunks of the parameter without a player hold no record
MaxCountFor(param) == IF param = 256 THEN 0 ELSE MaxCount
StepMasks == {0, 1, 2, 4, 8, 16, 32, 64, 128, 3, 15, 255}
Measures == {0, 4096}
\* the measure arrays of n records: every offset valid, or the last negative
MeasureArrays(n) ==
    [1..n -> Measures]
    \cup {[m EXCEPT ![n] = -4096] : m \in {x \in [1..n -> Measures] : n > 0 /\ x[n] = 0}}
\* (column_mask, extra_type) records of the freeze stream
FreezePairs == {<<c, 1>> : c \in {0, 1, 2, 4, 8, 16, 32, 64, 128, 3}} \cup {<<1, 2>>}

RECURSIVE Flatten(_)
Flatten(ps) == IF ps = <<>> THEN <<>> ELSE Head(ps) \o Flatten(Tail(ps))

\* the freeze streams tried with a chunk that holds z extra-data records:
\* up to z pairs, with or without a zero byte of padding in front, and the
\* streams that end in the middle of a pair
FreezeStreams(z) ==
    {pad \o Flatten(ps) : pad \in {<<>>, <<0>>},
                          ps \in UNION {[1..k -> FreezePairs] : k \in 0..z}}
    \cup {Flatten(ps) \o <<1>> : ps \in UNION {[1..k -> FreezePairs] : k \in 0..(z - 1)}}

Init ==
    /\ parameter \in Parameters
    /\ \E n \in 0..MaxCountFor(parameter) :
          /\ steps \in [1..n -> StepMasks]
          /\ measures \in MeasureArrays(n)
    /\ freeze_data \in FreezeStreams(Cardinality({k \in DOMAIN steps : steps[k] = 0}))
    /\ difficulty = Unset /\ freeze_iter = <<>> /\ step = 0
    /\ parsed_steps = <<>> /\ freeze_steps = <<>> /\ chart = Unset
    /\ RowIdle /\ LevelIdle /\ ShockIdle /\ TempoIdle /\ ConvIdle /\ FileIdle /\ BatchIdle

others == <<rowVars, levelVars, shockVars, tempoVars, convVars, fileVars, batchVars>>
input == <<parameter, measures, steps, freeze_data>>

\* everything before the loop: the level, the arrays, the freeze iterator
ChartBegin ==
    /\ difficulty.tag = "Unset" /\ chart.tag = "Unset"
    /\ difficulty' = Level_try_from(parameter)
    /\ chart' = IF difficulty'.tag = "Err" THEN difficulty' ELSE chart
    /\ freeze_iter' = SkipZeros(freeze_data)
    /\ step' = 0 /\ parsed_steps' = <<>> /\ freeze_steps' = <<>>
    /\ UNCHANGED <<input, others>>

\* the loop is at a record and nothing has failed
Scanning == difficulty.tag = "Ok" /\ chart.tag = "Unset" /\ step < Len(steps)

CurMask == steps[step + 1]
CurBeats == measure_to_beats(measures[step + 1])
FreezeRow == Row_new(freeze_iter[1], difficulty.val.players)

\* measures[step].try_into()? on a negative offset
RecordBadMeasure ==
    /\ Scanning /\ measures[step + 1] < 0
    /\ chart' = Err("TryFromIntError", measures[step + 1])
    /\ UNCHANGED <<input, difficulty, freeze_iter, step, parsed_steps, freeze_steps, others>>

RecordShock ==
    /\ Scanning /\ measures[step + 1] >= 0 /\ IsShock(CurMask)
    /\ parsed_steps' = Append(parsed_steps, Step_Shock(CurBeats))
    /\ step' = step + 1
    /\ UNCHANGED <<input, difficulty, freeze_iter, freeze_steps, chart, others>>

ExtraRecord == Scanning /\ measures[step + 1] >= 0 /\ ~IsShock(CurMask) /\ CurMask = 0

\* an exhausted stream taken for an extra record of unknown type
ExtraNotEnough_ignored ==
    /\ ExtraRecord /\ Len(freeze_iter) < 2
    /\ freeze_iter' = <<>>
    /\ step' = step + 1
    /\ UNCHANGED <<input, difficulty, parsed_steps, freeze_steps, chart, others>>

\* one of the two freeze_data.next() calls finds the stream exhausted
ExtraNotEnough ==
    /\ ExtraRecord /\ Len(freeze_iter) < 2
    /\ freeze_iter' = <<>>
    /\ chart' = Err("NotEnoughFreezeData", 0)
    /\ UNCHANGED <<input, difficulty, step, parsed_steps, freeze_steps, others>>

\* an extra record of unknown type that leaves its pair in the stream
ExtraUnknownType_keep ==
    /\ ExtraRecord /\ Len(freeze_iter) >= 2 /\ freeze_iter[2] # 1
    /\ step' = step + 1
    /\ UNCHANGED <<input, difficulty, freeze_iter, parsed_steps, freeze_steps, chart, others>>

ExtraUnknownType ==
    /\ ExtraRecord /\ Len(freeze_iter) >= 2 /\ freeze_iter[2] # 1
    /\ freeze_iter' = Tail(Tail(freeze_iter))
    /\ step' = step + 1
    /\ UNCHANGED <<input, difficulty, parsed_steps, freeze_steps, chart, others>>

FreezeEnd == ExtraRecord /\ Len(freeze_iter) >= 2 /\ freeze_iter[2] = 1

\* a freeze with not exactly one column: `continue`
ExtraFreezeSkipped ==
    /\ FreezeEnd /\ Row_count_active(FreezeRow.val) # 1
    /\ freeze_iter' = Tail(Tail(freeze_iter))
    /\ step' = step + 1
    /\ UNCHANGED <<input, difficulty, parsed_steps, freeze_steps, chart, others>>

ExtraFreezeFound ==
    /\ FreezeEnd /\ Row_count_active(FreezeRow.val) = 1
    /\ LET last_step == Chart_find_last(parsed_steps, FreezeRow.val)
       IN  /\ last_step.tag = "Some"
           /\ parsed_steps' = Append(parsed_steps,
                                Step_Freeze(parsed_steps[last_step.val + 1].beats,
                                            CurBeats, FreezeRow.val))
           /\ freeze_steps' = Append(freeze_steps, last_step.val)
    /\ freeze_iter' = Tail(Tail(freeze_iter))
    /\ step' = step + 1
    /\ UNCHANGED <<input, difficulty, chart, others>>

ExtraFreezeOrphan ==
    /\ FreezeEnd /\ Row_count_active(FreezeRow.val) = 1
    /\ Chart_find_last(parsed_steps, FreezeRow.val).tag = "None"
    /\ parsed_steps' = Append(parsed_steps, Step_Step(CurBeats, FreezeRow.val))
    /\ freeze_iter' = Tail(Tail(freeze_iter))
    /\ step' = step + 1
    /\ UNCHANGED <<input, difficulty, freeze_steps, chart, others>>

RecordNormal ==
    /\ Scanning /\ measures[step + 1] >= 0 /\ ~IsShock(CurMask) /\ CurMask # 0
    /\ parsed_steps' = Append(parsed_steps,
                         Step_Step(CurBeats, Row_new(CurMask, difficulty.val.players).val))
    /\ step' = step + 1
    /\ UNCHANGED <<input, difficulty, freeze_iter, freeze_steps, chart, others>>

\* after the loop: the steps that start a freeze are removed and the chart
\* is returned
ChartFinish ==
    /\ difficulty.tag = "Ok" /\ chart.tag = "Unset" /\ step = Len(steps)
    /\ LET cleaned == RemoveFreezeSteps(parsed_steps, freeze_steps)
       IN  chart' = IF cleaned.tag = "Ok"
                    THEN Ok([difficulty |-> difficulty.val, steps |-> cleaned.val])
                    ELSE cleaned
    /\ UNCHANGED <<input, difficulty, freeze_iter, step, parsed_steps, freeze_steps, others>>

Next ==
    \/ ChartBegin
    \/ RecordBadMeasure
    \/ RecordShock
    \/ ExtraNotEnough
    \/ ExtraUnknownType
    \/ ExtraFreezeSkipped
    \/ ExtraFreezeFound
    \/ ExtraFreezeOrphan
    \/ RecordNormal
    \/ ChartFinish

Spec == Init /\ [][Next]_vars

(***************************************************************************)
(* SpecConvert: SSQ::to_beatmaps on a decoded file, one step per action    *)
(***************************************************************************)
MaxSteps == 3

\* a beat past the end of every tempo map drawn
LateBeat == measure_to_beats(16384)

\* the tempo maps: a segment of no length and no duration, four beats, a
\* stop, four beats; and the map without any segment
TempoMaps ==
    {TempoChanges_parse(FALSE, 150, <<0, 0, 4096, 4096, 8192>>,
                        <<0, 0, 300, 450, 750>>).val,
     TempoChanges_parse(FALSE, 150, <<0>>, <<0>>).val}

\* the events of a chart of pl players, as Chart::parse builds them
ChartEvents(pl) ==
    {Step_Step(0, Row_new(1, pl).val),
     Step_Step(measure_to_beats(4096), Row_new(3, pl).val),
     Step_Step(LateBeat, Row_new(1, pl).val),
     Step_Step(0, Row_new(16, pl).val),
     Step_Freeze(0, measure_to_beats(4096), Row_new(2, pl).val),
     Step_Freeze(0, LateBeat, Row_new(2, pl).val),
     Step_Freeze(LateBeat, measure_to_beats(4096), Row_new(2, pl).val),
     Step_Shock(0),
     Step_Shock(LateBeat)}

\* the charts of up to m steps
Charts(m) ==
    UNION {{[difficulty |-> [players |-> pl, difficulty |-> 1], steps |-> ss] :
               ss \in UNION {[1..n -> ChartEvents(pl)] : n \in 0..m}} :
           pl \in {1, 2}}

\* the chart that follows the first one, when the file holds two
SecondCharts ==
    {[difficulty |-> [players |-> 2, difficulty |-> 4],
      steps |-> <<Step_Shock(0), Step_Step(0, Row_new(1, 2).val)>>]}

InitConvert ==
    /\ \E tc \in TempoMaps :
          \/ \E first \in Charts(MaxSteps) :
                file = [tempo_changes |-> tc, charts |-> <<first>>]
          \/ \E first \in Charts(MaxSteps - 1), second \in SecondCharts :
                file = [tempo_changes |-> tc, charts |-> <<first, second>>]
    /\ config \in [stops : BOOLEAN, shock_action : {"Ignore", "Step"}]
    /\ timing_points = None /\ converted_charts = <<>>
    /\ chart_index = 0 /\ step_index = 0
    /\ hit_objects = None /\ origins = <<>> /\ beatmaps = Unset
    /\ RowIdle /\ LevelIdle /\ ShockIdle /\ TempoIdle /\ ChartIdle /\ FileIdle /\ BatchIdle

convOthers == <<rowVars, levelVars, tempoVars, chartVars, fileVars, batchVars>>

\* the first loop: tempo changes to timing points
ConvertTimingPoints ==
    /\ timing_points = None /\ beatmaps = Unset
    /\ timing_points' = Some(TimingPoints_of(file.tempo_changes, config.stops))
    /\ UNCHANGED <<file, config, converted_charts, chart_index, step_index,
                   hit_objects, origins, beatmaps, shockVars, convOthers>>

\* the outer loop enters a chart: empty hit objects and a new generator
ChartStart ==
    /\ timing_points # None /\ hit_objects = None /\ beatmaps = Unset
    /\ chart_index < Len(file.charts)
    /\ hit_objects' = Some(<<>>)
    /\ origins' = <<>>
    /\ shock_step_generator' =
          ShockStepGenerator_new(file.charts[chart_index + 1].difficulty.players * 4,
                                 config.shock_action)
    /\ emitted' = <<>>
    /\ step_index' = 0
    /\ UNCHANGED <<file, config, timing_points, converted_charts, chart_index,
                   beatmaps, convOthers>>

CurChart == file.charts[chart_index + 1]
CurStep == CurChart.steps[step_index + 1]
InChart ==
    /\ hit_objects # None /\ beatmaps = Unset
    /\ step_index < Len(CurChart.steps)

\* the pass of the inner loop putting the new hit objects in front
ConvertStep_prepend ==
    LET r == Step_to_hit_objects(CurStep, CurChart.difficulty.players * 4,
                                 file.tempo_changes, shock_step_generator)
    IN  /\ shock_step_generator' = r.gen
        /\ emitted' = IF r.called
                      THEN Append(emitted, ShockStepGenerator_next(shock_step_generator).item)
                      ELSE emitted
        /\ hit_objects' = IF r.objs.tag = "Some"
                          THEN Some(r.objs.val \o hit_objects.val)
                          ELSE hit_objects
        /\ origins' = IF r.objs.tag = "Some"
                      THEN [k \in 1..Len(r.objs.val) |-> step_index] \o origins
                      ELSE origins
        /\ step_index' = step_index + 1
        /\ UNCHANGED <<file, config, timing_points, converted_charts, chart_index,
                       beatmaps, convOthers>>

\* one pass of the inner loop: to_hit_objects, then append when it is Some
ConvertStep ==
    LET r == Step_to_hit_objects(CurStep, CurChart.difficulty.players * 4,
                                 file.tempo_changes, shock_step_generator)
    IN  /\ shock_step_generator' = r.gen
        /\ emitted' = IF r.called
                      THEN Append(emitted, ShockStepGenerator_next(shock_step_generator).item)
                      ELSE emitted
        /\ IF r.objs.tag = "Panic"
           THEN /\ beatmaps' = r.objs
                /\ UNCHANGED <<hit_objects, origins, step_index>>
           ELSE /\ hit_objects' = IF r.objs.tag = "Some"
                                  THEN Some(hit_objects.val \o r.objs.val)
                                  ELSE hit_objects
                /\ origins' = IF r.objs.tag = "Some"
                              THEN origins \o [k \in 1..Len(r.objs.val) |-> step_index]
                              ELSE origins
                /\ step_index' = step_index + 1
                /\ UNCHANGED beatmaps
        /\ UNCHANGED <<file, config, timing_points, converted_charts, chart_index,
                       convOthers>>

ConvertTap == InChart /\ CurStep.kind = "Step" /\ ConvertStep
ConvertHold == InChart /\ CurStep.kind = "Freeze" /\ ConvertStep
ConvertShock == InChart /\ CurStep.kind = "Shock" /\ ConvertStep

\* the chart is through: it is pushed with a clone of the timing points
ChartDone ==
    /\ hit_objects # None /\ beatmaps = Unset
    /\ step_index = Len(CurChart.steps)
    /\ converted_charts' = Append(converted_charts,
                              [difficulty    |-> CurChart.difficulty,
                               hit_objects   |-> hit_objects.val,
                               timing_points |-> timing_points.val])
    /\ hit_objects' = None
    /\ chart_index' = chart_index + 1
    /\ UNCHANGED <<file, config, timing_points, step_index, origins, beatmaps,
                   shockVars, convOthers>>

\* ConvertedChart::to_beatmap, the fields that come from the chart
ConvertedChart_to_beatmap(converted_chart) ==
    [circle_size   |-> converted_chart.difficulty.players * 4,
     timing_points |-> converted_chart.timing_points,
     hit_objects   |-> converted_chart.hit_objects]

\* the last loop: every converted chart becomes a beatmap
ConvertFinish ==
    /\ timing_points # None /\ hit_objects = None /\ beatmaps = Unset
    /\ chart_index = Len(file.charts)
    /\ beatmaps' = Ok([k \in 1..Len(converted_charts) |->
                          ConvertedChart_to_beatmap(converted_charts[k])])
    /\ UNCHANGED <<file, config, timing_points, converted_charts, chart_index,
                   step_index, hit_objects, origins, shockVars, convOthers>>

NextConvert ==
    \/ ConvertTimingPoints
    \/ ChartStart
    \/ ConvertTap
    \/ ConvertHold
    \/ ConvertShock
    \/ ChartDone
    \/ ConvertFinish

SpecConvert == InitConvert /\ [][NextConvert]_vars

(***************************************************************************)
(* SpecFile: SSQ::parse on the bytes of a file, one chunk per action       *)
(***************************************************************************)
MaxChunks == 2

\* little-endian bytes of a u16 and of an i32
le16(n) == <<n % 256, n \div 256>>
le32(n) ==
    LET m == IF n < 0 THEN n + 2147483647 + 1 ELSE n
    IN  <<m % 256, (m \div 256) % 256, (m \div 65536) % 256,
          (m \div 16777216) + (IF n < 0 THEN 128 ELSE 0)>>

RECURSIVE le32s(_)
le32s(ns) == IF ns = <<>> THEN <<>> ELSE le32(Head(ns)) \o le32s(Tail(ns))

\* a chunk: length (header included), type, parameter, payload
Chunk(chunk_type, param, payload) ==
    le32(8 + Len(payload)) \o le16(chunk_type) \o le16(param) \o payload

TempoPayload(meas, ticks) == le32(Len(meas)) \o le32s(meas) \o le32s(ticks)
ChartPayload(meas, masks, freeze) == le32(Len(meas)) \o le32s(meas) \o masks \o freeze

\* the chunks files are built from: two tempo chunks, one with tick rate 0
\* and one whose arrays are shorter than its count; a chart with a freeze, a chart for two players, a chart that runs out
\* of freeze data after a step, one with a negative measure offset, one
\* without player; a chunk of another type; a header that declares length 5;
\* a negative length
FileChunks ==
    {Chunk(1, 150, TempoPayload(<<0, 4096>>, <<0, 300>>)),
     Chunk(1, 150, TempoPayload(<<0, 4096, 4096>>, <<0, 300, 450>>)),
     Chunk(1, 0, TempoPayload(<<0, 4096>>, <<0, 300>>)),
     Chunk(1, 150, le32(3) \o le32s(<<0>>)),
     Chunk(3, 260, ChartPayload(<<0, 4096>>, <<1, 0>>, <<1, 1>>)),
     Chunk(3, 264, ChartPayload(<<0>>, <<17>>, <<>>)),
     Chunk(3, 260, ChartPayload(<<0, 4096>>, <<1, 0>>, <<>>)),
     Chunk(3, 260, ChartPayload(<<0, -4096>>, <<1, 2>>, <<>>)),
     Chunk(3, 256, ChartPayload(<<>>, <<>>, <<>>)),
     Chunk(2, 7, <<9, 9>>),
     le32(5) \o le16(1) \o le16(0) \o <<0>>,
     le32(-1) \o le16(1) \o le16(0)}

Terminator == le32(0)

\* up to MaxChunks chunks and the terminator
TerminatedFiles ==
    {Flatten(cs) \o Terminator : cs \in UNION {[1..n -> FileChunks] : n \in 0..MaxChunks}}

\* the files: terminated ones, each of their prefixes (truncation), and
\* terminated ones followed by the bytes of one more chart chunk
Files ==
    UNION {{SubSeq(f, 1, n) : n \in 0..Len(f)} : f \in TerminatedFiles}
    \cup {f \o Chunk(3, 264, ChartPayload(<<0>>, <<17>>, <<>>)) : f \in TerminatedFiles}

InitFile ==
    /\ data \in Files
    /\ cursor = 0
    /\ ssq = [tempo_changes |-> <<>>, charts |-> <<>>]
    /\ parsed = Unset
    /\ overflow_checks \in BOOLEAN
    /\ ticks_per_second = 0 /\ measure = <<>> /\ tempo_data = <<>>
    /\ tempo_changes = Unset /\ beats = 0 /\ time = Unset
    /\ RowIdle /\ LevelIdle /\ ShockIdle /\ ChartIdle /\ ConvIdle /\ BatchIdle

\* the pass of the loop at the cursor
ThisChunk == SSQ_chunk(overflow_checks, data, cursor, ssq)

ChunkPass(what) ==
    /\ parsed.tag = "Unset"
    /\ ThisChunk.what = what
    /\ ssq' = ThisChunk.ssq
    /\ cursor' = ThisChunk.cursor
    /\ parsed' = ThisChunk.result
    /\ UNCHANGED <<data, rowVars, levelVars, shockVars, tempoVars, chartVars, convVars, batchVars>>

\* the header or the payload cannot be read
ChunkReadFails == ChunkPass("read")
\* length 0: break
ChunkEnd == ChunkPass("end")
\* type 1
ChunkTempo == ChunkPass("tempo")
\* type 3
ChunkChart == ChunkPass("chart")
\* any other type
ChunkOther == ChunkPass("other")

NextFile ==
    \/ ChunkReadFails
    \/ ChunkEnd
    \/ ChunkTempo
    \/ ChunkChart
    \/ ChunkOther

SpecFile == InitFile /\ [][NextFile]_vars

(***************************************************************************)
(* Claims about the Bit-Row model (SpecRow)                                *)
(***************************************************************************)
\* utils.rs bitarray_to_byte: sum of (bit as u8) << i
RECURSIVE bitarray_to_byte(_)
bitarray_to_byte(flags) ==
    IF flags = <<>> THEN 0
    ELSE (IF Head(flags) THEN 1 ELSE 0) + 2 * bitarray_to_byte(Tail(flags))

\* C7: Row::new(byte, players) is, for players = 1, the Single variant whose
\* flattened flags [left, down, up, right] are bits 0..3 of the byte (bits 4..7
\* ignored); for players = 2 the Double variant whose 8 flattened flags are
\* bits 0..7 of the byte in order; for any other players value it fails with
\* InvalidPlayerCount(players).  The variant never mismatches the player count.
C7_RowDecode ==
    row.tag # "Unset" =>
        CASE players = 1 ->
                /\ row.tag = "Ok" /\ row.val.variant = "Single"
                /\ Len(Row_into_vec(row.val)) = 4
                /\ Row_into_vec(row.val) =
                     <<row.val.p1.left, row.val.p1.down, row.val.p1.up, row.val.p1.right>>
                /\ bitarray_to_byte(Row_into_vec(row.val)) = columns % 16
          [] players = 2 ->
                /\ row.tag = "Ok" /\ row.val.variant = "Double"
                /\ Len(Row_into_vec(row.val)) = 8
                /\ bitarray_to_byte(Row_into_vec(row.val)) = columns
          [] OTHER -> row = Err("InvalidPlayerCount", players)

\* C7 witness: Row::new(0b01000000, 2) has been built and flattens to the
\* eight flags with only position 6 set (test_row_into_vec).
C7_Witness ==
    /\ players = 2 /\ columns = 64 /\ row.tag = "Ok"
    /\ Row_into_vec(row.val) = <<FALSE, FALSE, FALSE, FALSE, FALSE, FALSE, TRUE, FALSE>>

\* C8: intersects(a, b) is true iff a and b have the same variant and some
\* corresponding column is active in both; rows of different variants never
\* intersect; intersects(row, row) is true iff count_active(row) > 0.
C8_Intersects ==
    intersects.tag = "Ok" =>
        LET a == Row_into_vec(row.val)
            b == Row_into_vec(other.val)
        IN  /\ intersects.val.self_other =
                 (/\ row.val.variant = other.val.variant
                  /\ \E i \in 1..Len(a) : a[i] /\ b[i])
            /\ (row.val.variant # other.val.variant => ~intersects.val.self_other)
            /\ intersects.val.self_self = (intersects.val.count_active > 0)
            /\ intersects.val.count_active = Cardinality({i \in 1..Len(a) : a[i]})

\* C8 witness: two different Double rows that share only a second-player
\* column (0b10000000 and 0b10101010) were found to intersect.
C8_Witness ==
    /\ intersects.tag = "Ok" /\ players = 2 /\ other_players = 2
    /\ columns = 128 /\ other_columns = 170
    /\ intersects.val.self_other /\ intersects.val.count_active = 1

(***************************************************************************)
(* Claims about the Level model (SpecLevel)                                *)
(***************************************************************************)
\* the raw difficulty codes in easiest-to-hardest order
SsqCodeOrder == <<4, 1, 2, 3, 6>>

\* C9: Level::new maps the raw codes 4,1,2,3,6 to the ordered difficulties
\* 0,1,2,3,4 (relative_difficulty 0, 0.25, 0.5, 0.75, 1.0 in that code order);
\* a player count other than 1 or 2 fails with InvalidPlayerCount (checked
\* first), and with a valid player count any other code fails with
\* InvalidDifficulty.
C9_LevelNew ==
    (level_call.fn = "new" /\ level.tag # "Unset") =>
        LET pl == level_call.a
            code == level_call.b
        IN  CASE pl \notin {1, 2} -> level = Err("InvalidPlayerCount", pl)
              [] pl \in {1, 2} /\ code \notin {4, 1, 2, 3, 6} ->
                    level = Err("InvalidDifficulty", code)
              [] OTHER ->
                    /\ level.tag = "Ok" /\ level.val.players = pl
                    /\ level.val.difficulty \in 0..4
                    /\ SsqCodeOrder[level.val.difficulty + 1] = code
                    /\ Level_relative_difficulty(level.val) = 25 * level.val.difficulty

\* C9 witness: Level::new(2, 6) returned the hardest level, relative
\* difficulty 1.0.
C9_Witness ==
    /\ level_call = [fn |-> "new", a |-> 2, b |-> 6]
    /\ level.tag = "Ok" /\ level.val.difficulty = 4
    /\ Level_relative_difficulty(level.val) = 100

\* C10: a step chunk's 16-bit parameter decodes to players = low nibble
\* divided by 4 and raw code = high byte; the decode succeeds exactly when
\* players is 1 or 2 (low nibble 4..11) and the code is one of 4,1,2,3,6, and
\* then yields that player count and the code's ordered difficulty
\* (0x0408 -> players 2, difficulty 0; 0x0604 -> players 1, difficulty 4).
C10_LevelFromParameter ==
    (level_call.fn = "try_from" /\ level.tag # "Unset") =>
        LET param == level_call.a
            nibble == param - 16 * (param \div 16)
            high == param \div 256
        IN  /\ (level.tag = "Ok") = (nibble \in 4..11 /\ high \in {4, 1, 2, 3, 6})
            /\ level.tag = "Ok" =>
                 /\ 4 * level.val.players <= nibble
                 /\ nibble < 4 * level.val.players + 4
                 /\ SsqCodeOrder[level.val.difficulty + 1] = high
            /\ level.tag # "Ok" => level.tag = "Err"
            /\ param = 1032 => level = Ok([players |-> 2, difficulty |-> 0])
            /\ param = 1540 => level = Ok([players |-> 1, difficulty |-> 4])

\* C10 witness: the parameter 0x0408 was decoded to players 2, difficulty 0.
C10_Witness ==
    /\ level_call.fn = "try_from" /\ level_call.a = 1032
    /\ level = Ok([players |-> 2, difficulty |-> 0])

\* the Levels of construction in the order players 1 then 2, and within
\* each the codes 4, 1, 2, 3, 6
LevelsInOrder ==
    [k \in 1..10 |-> Level_new(((k - 1) \div 5) + 1, SsqCodeOrder[((k - 1) % 5) + 1]).val]

StrictlyIncreasing(table) == \A i, j \in DOMAIN table : i < j => table[i] < table[j]

\* C11: for every Level that construction returns, the index to_value reads
\* the level table at lies in 0..9 and no other constructed Level has it; the
\* Level that comes k-th in the order players 1, 2 and codes 4, 1, 2, 3, 6
\* reads index k-1, so the order visits 0, 1, ..., 9; and with a strictly
\* increasing table of 10 entries a Level later in that order gets a
\* strictly greater value.
C11_LevelTableIndex ==
    value.tag # "Unset" =>
        LET idx == Level_to_value_index(level.val)
        IN  /\ idx \in 0..9
            /\ value = Ok(levels[idx + 1])
            /\ LevelsInOrder[idx + 1] = level.val
            /\ \A k \in 1..10 :
                   /\ Level_to_value_index(LevelsInOrder[k]) = k - 1
                   /\ (LevelsInOrder[k] # level.val) =>
                         Level_to_value_index(LevelsInOrder[k]) # idx
                   /\ (StrictlyIncreasing(levels) /\ k - 1 > idx) =>
                         /\ Level_to_value(LevelsInOrder[k], levels).tag = "Ok"
                         /\ Level_to_value(LevelsInOrder[k], levels).val > value.val

\* the first double Level (2 players, code 4) has read index 5 of an
\* increasing table
C11_Witness ==
    /\ value.tag = "Ok" /\ StrictlyIncreasing(levels)
    /\ level.val = [players |-> 2, difficulty |-> 0]
    /\ value.val = levels[6]

(***************************************************************************)
(* Claims about the step chunk decoder (Spec)                              *)
(***************************************************************************)
\* the mask with only column c (from 0) set
ColumnMask(c) == Pow2(c)

\* the freeze stream, after its zero padding, starts with the pair (m, t)
FreezeStartsWith(m, t) ==
    \E n \in 0..Len(freeze_data) :
        /\ \A k \in 1..n : freeze_data[k] = 0
        /\ Len(freeze_data) >= n + 2
        /\ freeze_data[n + 1] = m /\ freeze_data[n + 2] = t

\* the chunk is [normal step with exactly column c, extra-data record whose
\* freeze pair is (column c, 1)]
TapThenFreeze(c) ==
    /\ Len(steps) = 2 /\ steps[1] = ColumnMask(c) /\ steps[2] = 0
    /\ measures[1] >= 0 /\ measures[2] >= 0
    /\ FreezeStartsWith(ColumnMask(c), 1)

\* C1: decoding [normal step with exactly one column c at beat b0, extra-data
\* record at beat b1 whose freeze pair is (mask of column c, 1)] yields
\* exactly one event, Freeze{start = b0, end = b1, row = column c only}, and
\* no leftover Step, for 1 player (c in 0..3) and for 2 players (c in 0..7).
C1_FreezeReconciliation ==
    \A c \in 0..7 :
        (/\ chart.tag # "Unset" /\ difficulty.tag = "Ok"
         /\ c < 4 * difficulty.val.players
         /\ TapThenFreeze(c)) =>
            /\ chart.tag = "Ok"
            /\ Len(chart.val.steps) = 1
            /\ chart.val.steps[1].kind = "Freeze"
            /\ chart.val.steps[1].start = 4 * measures[1]
            /\ chart.val.steps[1].end = 4 * measures[2]
            /\ chart.val.steps[1].row.variant =
                 (IF difficulty.val.players = 1 THEN "Single" ELSE "Double")
            /\ Row_into_vec(chart.val.steps[1].row) =
                 [i \in 1..(4 * difficulty.val.players) |-> i = c + 1]

\* C1 witness: the spec's scenario with 2 players and column 5: a step at
\* beat 0 and its freeze end at beat 4 were decoded to one Freeze.
C1_Witness ==
    /\ chart.tag = "Ok" /\ difficulty.val.players = 2
    /\ steps = <<32, 0>> /\ measures = <<0, 4096>> /\ freeze_data = <<0, 32, 1>>
    /\ Len(chart.val.steps) = 1 /\ chart.val.steps[1].kind = "Freeze"
    /\ chart.val.steps[1].start = 0 /\ chart.val.steps[1].end = 4 * 4096

\* the all-columns mask of a player count
ShockSentinel(pl) == IF pl = 1 THEN 15 ELSE 255

\* C2: a raw record is emitted as Shock iff its mask equals the all-columns
\* sentinel of the chart's player count (0x0F for 1 player, 0xFF for 2); a
\* mask that is neither that sentinel nor 0x00 is emitted as
\* Step{beats, row decoded for the chart's player count}.
C2_ShockSentinel ==
    [][(Scanning /\ step' = step + 1) =>
         LET pl == difficulty.val.players
             emitted_shock == parsed_steps' = Append(parsed_steps, Step_Shock(CurBeats))
         IN  /\ emitted_shock <=> (CurMask = ShockSentinel(pl))
             /\ CurMask \notin {ShockSentinel(pl), 0} =>
                  parsed_steps' = Append(parsed_steps,
                                         Step_Step(CurBeats, Row_new(CurMask, pl).val))
      ]_vars

\* the loop of Chart::parse taken record by record (Spec) and taken as a
\* whole (ChartLoop) return the same
ChartLoopAgrees ==
    chart.tag # "Unset" => chart = Chart_parse_arrays(parameter, measures, steps, freeze_data)

\* C12: when the loop is at a record whose measure offset converts and whose
\* mask is 0x00 while fewer than two bytes remain in the freeze stream, the
\* step taken there ends Chart::parse with Err(NotEnoughFreezeData): no
\* Chart is returned for the chunk.
C12_NotEnoughFreezeData ==
    [][(/\ difficulty.tag = "Ok" /\ chart.tag = "Unset" /\ step < Len(steps)
        /\ measures[step + 1] >= 0 /\ steps[step + 1] = 0
        /\ Len(freeze_iter) < 2)
       => chart' = Err("NotEnoughFreezeData", 0)]_vars

\* the second record is an extra-data record, the first was decoded, and the
\* freeze stream held a single byte
C12_Witness ==
    /\ chart = Err("NotEnoughFreezeData", 0)
    /\ step = 1 /\ steps[2] = 0 /\ Len(parsed_steps) = 1
    /\ Len(SkipZeros(freeze_data)) = 1

(***************************************************************************)
(* Claims about the shock column resolver (SpecShock)                      *)
(***************************************************************************)
\* the set of columns one call of next() lights up
ColumnSet(item) == Range(ShockColumns(item))

Min(a, b) == IF a < b THEN a ELSE b

\* C3 as stated: a fresh Step generator with 4 columns yields {0,3}, {1,2},
\* {0,3}, {1,2} on its first four calls.
C3_Original ==
    (shock_step_generator.columns = 4 /\ shock_step_generator.mode = "Step") =>
        \A k \in 1..Min(4, Len(emitted)) :
            ColumnSet(emitted[k]) = << {0, 3}, {1, 2}, {0, 3}, {1, 2} >>[k]

\* C3 amended: a fresh Step generator with 4 columns yields {0,3}, {1,2},
\* {1,2}, {0,3} on its first four calls (one column position per call, columns
\* 0 and 3 giving the outer pair, 1 and 2 the inner pair).
C3_StepFourColumns ==
    (shock_step_generator.columns = 4 /\ shock_step_generator.mode = "Step") =>
        \A k \in 1..Min(4, Len(emitted)) :
            /\ emitted[k].tag = "Some"
            /\ ColumnSet(emitted[k]) = << {0, 3}, {1, 2}, {1, 2}, {0, 3} >>[k]

\* C3 witness: the 4-column Step generator has been called four times and the
\* fourth call returned the outer pair.
C3_Witness ==
    /\ shock_step_generator.columns = 4 /\ shock_step_generator.mode = "Step"
    /\ Len(emitted) = 4 /\ emitted[4] = Some(<<0, 3>>)
    /\ shock_step_generator.last = 0

\* C4 as stated: a fresh Step generator with 8 columns yields {0,3}, {1,2},
\* {4,7}, {5,6} and then repeats that cycle; with Ignore every call yields no
\* columns.
C4_Original ==
    /\ (shock_step_generator.columns = 8 /\ shock_step_generator.mode = "Step") =>
          \A k \in 1..Len(emitted) :
              ColumnSet(emitted[k]) = << {0, 3}, {1, 2}, {4, 7}, {5, 6} >>[((k - 1) % 4) + 1]
    /\ shock_step_generator.mode = "Ignore" =>
          \A k \in 1..Len(emitted) : ColumnSet(emitted[k]) = {}

\* C4 amended: a fresh Step generator with 8 columns yields {0,3}, {1,2},
\* {1,2}, {0,3}, {4,7}, {5,6}, {5,6}, {4,7} and then repeats that cycle of
\* eight from {0,3}; with Ignore every call yields no columns.
C4_StepEightColumns ==
    /\ (shock_step_generator.columns = 8 /\ shock_step_generator.mode = "Step") =>
          \A k \in 1..Len(emitted) :
              /\ emitted[k].tag = "Some"
              /\ ColumnSet(emitted[k]) =
                   << {0, 3}, {1, 2}, {1, 2}, {0, 3},
                      {4, 7}, {5, 6}, {5, 6}, {4, 7} >>[((k - 1) % 8) + 1]
    /\ shock_step_generator.mode = "Ignore" =>
          \A k \in 1..Len(emitted) : emitted[k] = None /\ ColumnSet(emitted[k]) = {}

\* C4 witness: the 8-column Step generator is in its third cycle, having
\* returned {0,3} again on the 9th call and {4,7} on the 16th.
C4_Witness ==
    /\ shock_step_generator.columns = 8 /\ shock_step_generator.mode = "Step"
    /\ Len(emitted) = 17
    /\ emitted[9] = Some(<<0, 3>>) /\ emitted[16] = Some(<<4, 7>>)

(***************************************************************************)
(* Claims about the tempo map (SpecTempo)                                  *)
(***************************************************************************)
\* C5: for every tempo chunk that decodes successfully, each segment's
\* end_beats equals the next segment's start_beats and start_ms is
\* non-decreasing along the map.
C5_TempoMapInvariant ==
    tempo_changes.tag = "Ok" =>
        \A i \in 1..(Len(tempo_changes.val) - 1) :
            /\ tempo_changes.val[i].end_beats = tempo_changes.val[i + 1].start_beats
            /\ U32Leq(tempo_changes.val[i].start_ms, tempo_changes.val[i + 1].start_ms)

\* the first segment in map order that starts at beat b (0 when there is none)
FirstStartingAt(tc, b) ==
    IF \E k \in DOMAIN tc : tc[k].start_beats = b
    THEN CHOOSE k \in DOMAIN tc :
            /\ tc[k].start_beats = b
            /\ \A j \in 1..(k - 1) : tc[j].start_beats # b
    ELSE 0

\* C6: for a query exactly equal to the start_beats of a segment of a decoded
\* tempo map (segments of any whole number of measure units, one unit
\* included), get_time_from_beats returns the start_ms of the first segment
\* in map order that starts at that beat.
C6_BoundaryResolve ==
    (tempo_changes.tag = "Ok" /\ time.tag # "Unset"
        /\ FirstStartingAt(tempo_changes.val, beats) # 0) =>
        time = Some(tempo_changes.val[FirstStartingAt(tempo_changes.val, beats)].start_ms)

(***************************************************************************)
(* Claims about the chart-to-event translator (SpecConvert)                *)
(***************************************************************************)
Resolves(b) == get_time_from_beats(overflow_checks, b, file.tempo_changes).tag = "Some"
ResolvedTime(b) == get_time_from_beats(overflow_checks, b, file.tempo_changes).val

\* the hit objects the step of the inner loop appended
NewObjects ==
    SubSeq(hit_objects'.val, Len(hit_objects.val) + 1, Len(hit_objects'.val))

\* C13 as stated: a Tap yields no target event when its beat does not
\* resolve and exactly one when it does.
C13_Original ==
    [][(InChart /\ CurStep.kind = "Step") =>
          Len(NewObjects) = IF Resolves(CurStep.beats) THEN 1 ELSE 0]_vars

\* C13: a Tap yields no target event when its beat does not resolve;
\* when it resolves it yields one circle for each active column of its row
\* (none for a row without active column, two for a jump), in ascending
\* column order, all at the resolved time.
C13_TapPerColumn ==
    [][(InChart /\ CurStep.kind = "Step") =>
          /\ hit_objects'.val = hit_objects.val \o NewObjects
          /\ IF Resolves(CurStep.beats)
             THEN /\ Len(NewObjects) = Row_count_active(CurStep.row)
                  /\ \A k \in DOMAIN NewObjects :
                        /\ NewObjects[k].kind = "HitCircle"
                        /\ NewObjects[k].time = ResolvedTime(CurStep.beats)
                        /\ NewObjects[k].columns = CurChart.difficulty.players * 4
                        /\ Row_into_vec(CurStep.row)[NewObjects[k].column + 1]
                        /\ \A j \in DOMAIN NewObjects :
                              j < k => NewObjects[j].column < NewObjects[k].column
             ELSE NewObjects = <<>>]_vars

\* a Tap on two columns whose beat resolves has been translated to two circles
C13_Witness ==
    /\ hit_objects.tag = "Some" /\ step_index = 1
    /\ file.charts[chart_index + 1].steps[1].kind = "Step"
    /\ Row_count_active(file.charts[chart_index + 1].steps[1].row) = 2
    /\ Len(hit_objects.val) = 2

\* every Freeze that Chart::parse has pushed covers exactly one column (the
\* charts drawn for the translator are built accordingly)
FreezeHasOneColumn ==
    \A k \in DOMAIN parsed_steps :
        parsed_steps[k].kind = "Freeze" => Row_count_active(parsed_steps[k].row) = 1

\* C14: a Hold yields a target event only when both its start beat and its
\* end beat resolve, and none when either or both fail; it never yields more
\* than one, and the one it yields is a Hold on the row's column that carries
\* the resolved start time and the resolved end time.
C14_HoldBothEnds ==
    [][(InChart /\ CurStep.kind = "Freeze") =>
          /\ hit_objects'.val = hit_objects.val \o NewObjects
          /\ Len(NewObjects) <= 1
          /\ IF Resolves(CurStep.start) /\ Resolves(CurStep.end)
             THEN /\ Len(NewObjects) = 1
                  /\ NewObjects[1].kind = "Hold"
                  /\ NewObjects[1].time = ResolvedTime(CurStep.start)
                  /\ NewObjects[1].end_time = ResolvedTime(CurStep.end)
                  /\ Row_into_vec(CurStep.row)[NewObjects[1].column + 1]
             ELSE NewObjects = <<>>]_vars

\* a Hold whose start resolves and whose end does not has been passed over
\* after an earlier Hold had been translated
C14_Witness ==
    /\ hit_objects.tag = "Some" /\ step_index = 2
    /\ file.charts[chart_index + 1].steps[1].kind = "Freeze"
    /\ file.charts[chart_index + 1].steps[2].kind = "Freeze"
    /\ Resolves(file.charts[chart_index + 1].steps[2].start)
    /\ ~Resolves(file.charts[chart_index + 1].steps[2].end)
    /\ Len(hit_objects.val) = 1 /\ hit_objects.val[1].kind = "Hold"

\* the k-th item a generator yields, counting from the generator g
RECURSIVE NthItem(_, _)
NthItem(g, k) ==
    IF k = 1 THEN ShockStepGenerator_next(g).item
    ELSE NthItem(ShockStepGenerator_next(g).gen, k - 1)

\* how many of the first n steps of chart c are Shocks
ShocksAmong(c, n) == Cardinality({k \in 1..n : c.steps[k].kind = "Shock"})

\* what step i (from 0) of chart c yields by itself: from its own beats and
\* row, and for a Shock from its rank among the Shocks of the chart
OwnObjects(c, i) ==
    LET st == c.steps[i + 1]
        n == c.difficulty.players * 4
        cols == ShockColumns(NthItem(ShockStepGenerator_new(n, config.shock_action),
                                     ShocksAmong(c, i + 1)))
        objs == IF st.kind = "Step" THEN Tap_to_hit_objects(st, n, file.tempo_changes)
                ELSE IF st.kind = "Freeze"
                THEN Freeze_to_hit_objects(st, n, file.tempo_changes)
                ELSE IF Resolves(st.beats)
                THEN Some([k \in 1..Len(cols) |->
                              HitCircle(cols[k], n, ResolvedTime(st.beats))])
                ELSE None
    IN  IF objs.tag = "Some" THEN objs.val ELSE <<>>

\* the hit objects that came from step i, in output order
ObjectsFrom(i) ==
    LET idx == {k \in DOMAIN origins : origins[k] = i}
        F[k \in 0..Len(origins)] ==
            IF k = 0 THEN <<>>
            ELSE IF k \in idx THEN Append(F[k - 1], hit_objects.val[k]) ELSE F[k - 1]
    IN  F[Len(origins)]

\* C15: while a chart is translated the output is in input order: the hit
\* objects of step i all come before those of step j whenever i < j, whatever
\* their times; and the hit objects of each step are those it yields by
\* itself, so a step that was dropped (it yields none) leaves the hit
\* objects of the other steps and their order as they are.
C15_OutputOrder ==
    hit_objects.tag = "Some" =>
        /\ Len(origins) = Len(hit_objects.val)
        /\ \A a, b \in DOMAIN origins : a < b => origins[a] <= origins[b]
        /\ \A i \in 0..(step_index - 1) :
              ObjectsFrom(i) = OwnObjects(file.charts[chart_index + 1], i)

\* three steps are through: the first gave two circles, the second was
\* dropped, the third gave a circle at an earlier time than the first two
C15_Witness ==
    /\ hit_objects.tag = "Some" /\ step_index = 3
    /\ origins = <<0, 0, 2>>
    /\ U32Less(hit_objects.val[3].time, hit_objects.val[1].time)

\* the generator g after k calls of next()
RECURSIVE Advanced(_, _)
Advanced(g, k) ==
    IF k = 0 THEN g ELSE Advanced(ShockStepGenerator_next(g).gen, k - 1)

\* the generator a chart starts with
FreshGenerator(c) ==
    ShockStepGenerator_new(c.difficulty.players * 4, config.shock_action)

\* C16: while a chart is translated, the calls of its generator so far are
\* as many as the Shocks among the steps done (a Shock calls it once, also
\* when it is dropped; a Tap or a Hold never), the generator is the chart's
\* own fresh generator after that many calls, so the k-th Shock got the k-th
\* output; the hit objects of one Shock are on the columns of that output and
\* all carry the one resolved time of the Shock's beat.
C16_ShockConsumesOne ==
    hit_objects.tag = "Some" =>
        LET c == file.charts[chart_index + 1]
        IN  /\ Len(emitted) = ShocksAmong(c, step_index)
            /\ shock_step_generator = Advanced(FreshGenerator(c), Len(emitted))
            /\ \A k \in DOMAIN emitted : emitted[k] = NthItem(FreshGenerator(c), k)
            /\ \A i \in 0..(step_index - 1) :
                  c.steps[i + 1].kind = "Shock" =>
                      LET objs == ObjectsFrom(i)
                          cols == ShockColumns(emitted[ShocksAmong(c, i + 1)])
                      IN  /\ \A k \in DOMAIN objs :
                                /\ objs[k].kind = "HitCircle"
                                /\ objs[k].time = ResolvedTime(c.steps[i + 1].beats)
                          /\ objs # <<>> => [k \in DOMAIN objs |-> objs[k].column] = cols
                          /\ Resolves(c.steps[i + 1].beats) => Len(objs) = Len(cols)

\* the second chart of a file is in work after a first chart with two Shocks:
\* its Shock got the first output of a generator of its own
C16_Witness ==
    /\ hit_objects.tag = "Some" /\ chart_index = 1 /\ step_index = 1
    /\ ShocksAmong(file.charts[1], Len(file.charts[1].steps)) = 2
    /\ emitted = <<Some(<<0, 3>>)>>
    /\ shock_step_generator = [last |-> 1, columns |-> 8, mode |-> "Step"]
    /\ Len(hit_objects.val) = 2

\* the segments (by index) of the tempo map that get a marker with the stop
\* flag as it is: all of them with stops, those of finite or undefined beat
\* length without
MarkedSegments ==
    LET tc == file.tempo_changes
        F[k \in 0..Len(tc)] ==
            IF k = 0 THEN <<>>
            ELSE IF config.stops \/ ~IsInfinity(tc[k].beat_length)
                 THEN Append(F[k - 1], k) ELSE F[k - 1]
    IN  F[Len(tc)]

\* C17: once built, the marker list holds one marker for each segment of the
\* tempo map, in the order of the map, with time = the segment's start_ms:
\* with stops disabled the segments of infinite beat length are left out,
\* with stops enabled no segment is left out, and a marker of an infinite
\* beat length carries 10000 ms, any other the segment's beat length; every
\* converted chart and every beatmap of the file holds that same list.
C17_TimingPoints ==
    timing_points.tag = "Some" =>
        LET tc == file.tempo_changes
            tp == timing_points.val
        IN  /\ Len(tp) = Len(MarkedSegments)
            /\ config.stops => Len(tp) = Len(tc)
            /\ ~config.stops =>
                  Len(tp) = Cardinality({k \in DOMAIN tc : ~IsInfinity(tc[k].beat_length)})
            /\ \A j \in DOMAIN tp :
                  /\ tp[j].time = tc[MarkedSegments[j]].start_ms
                  /\ tp[j].beat_length =
                        IF IsInfinity(tc[MarkedSegments[j]].beat_length)
                        THEN [ms |-> ToU32(10000), beats |-> MEASURE_LENGTH]
                        ELSE tc[MarkedSegments[j]].beat_length
            /\ \A k \in DOMAIN converted_charts : converted_charts[k].timing_points = tp
            /\ beatmaps.tag = "Ok" =>
                  /\ Len(beatmaps.val) = Len(file.charts)
                  /\ \A k \in DOMAIN beatmaps.val : beatmaps.val[k].timing_points = tp

\* stops are disabled, the third of the four segments of the map is a stop,
\* and both charts of the file were converted with the three markers left
C17_Witness ==
    /\ ~config.stops /\ Len(file.tempo_changes) = 4
    /\ IsInfinity(file.tempo_changes[3].beat_length)
    /\ timing_points.tag = "Some" /\ Len(timing_points.val) = 3
    /\ timing_points.val[3].time = file.tempo_changes[4].start_ms
    /\ beatmaps.tag = "Ok" /\ Len(beatmaps.val) = 2

(***************************************************************************)
(* Claims about file decode (SpecFile)                                     *)
(***************************************************************************)
\* the header at the cursor, read field by field
HeaderLength == read_i32(data, cursor)
HeaderType == read_u16(data, cursor + 4)
HeaderParameter == read_u16(data, cursor + 6)

\* a whole chunk lies at the cursor: header and declared payload are there
WholeChunk ==
    /\ HeaderLength.tag = "Ok" /\ HeaderLength.val >= 8
    /\ cursor + HeaderLength.val <= Len(data)

Payload == SubSeq(data, cursor + 9, cursor + HeaderLength.val)

\* what the chunk at the cursor decodes to, by its type
DecodedTempo == TempoChanges_parse_data(overflow_checks, HeaderParameter.val, Payload)
DecodedChart == Chart_parse(Payload, HeaderParameter.val)

\* C18: each pass of the loop takes the chunk at the cursor and, unless it
\* ends the decode, leaves the cursor right behind that chunk, so chunks are
\* taken in file order; a length field of 0 ends the decode with the SSQ
\* built so far, whatever bytes follow; a type-1 chunk that decodes puts its
\* tempo map in place of the old one and leaves the charts; a type-3 chunk
\* that decodes appends its Chart behind the charts and leaves the tempo
\* map; a chunk of another type leaves both and the decode goes on.
C18_ChunksInFileOrder ==
    [][parsed.tag = "Unset" =>
          /\ (HeaderLength.tag = "Ok" /\ HeaderLength.val = 0) =>
                /\ parsed' = Ok(ssq) /\ ssq' = ssq /\ cursor' = cursor + 4
          /\ parsed'.tag = "Unset" =>
                /\ WholeChunk /\ cursor' = cursor + HeaderLength.val
          /\ (WholeChunk /\ HeaderType.val = 1 /\ DecodedTempo.tag = "Ok") =>
                /\ parsed'.tag = "Unset"
                /\ ssq'.tempo_changes = DecodedTempo.val
                /\ ssq'.charts = ssq.charts
          /\ (WholeChunk /\ HeaderType.val = 3 /\ DecodedChart.tag = "Ok") =>
                /\ parsed'.tag = "Unset"
                /\ ssq'.charts = Append(ssq.charts, DecodedChart.val)
                /\ ssq'.tempo_changes = ssq.tempo_changes
          /\ (WholeChunk /\ HeaderType.val \notin {1, 3}) =>
                /\ parsed'.tag = "Unset" /\ ssq' = ssq]_vars

\* a 1-player chart, a 2-player chart, the terminator and more bytes: the
\* result holds the two charts in file order and the cursor stands before
\* the bytes behind the terminator
C18_Witness ==
    /\ parsed.tag = "Ok" /\ Len(parsed.val.charts) = 2
    /\ parsed.val.charts[1].difficulty.players = 1
    /\ parsed.val.charts[2].difficulty.players = 2
    /\ cursor < Len(data)

\* C19 as stated: whatever the bytes, SSQ::parse ends with Ok or with an
\* Err value, never with a panic.
C19_NeverAborts == parsed.tag \in {"Unset", "Ok", "Err"}

\* C20: when the chunk at the cursor fails to decode with an error, at
\* whichever record, SSQ::parse returns that error and nothing else: the
\* value handed to the caller has no Chart, no events and no tempo map in
\* it, whatever had been decoded from earlier chunks and records.
C20_Atomic ==
    [][parsed.tag = "Unset" =>
          /\ (WholeChunk /\ HeaderType.val = 3 /\ DecodedChart.tag = "Err") =>
                parsed' = DecodedChart
          /\ (WholeChunk /\ HeaderType.val = 1 /\ DecodedTempo.tag = "Err") =>
                parsed' = DecodedTempo
          /\ parsed'.tag = "Err" => DOMAIN parsed' = {"tag", "err", "arg"}
          /\ parsed'.tag = "Ok" => (HeaderLength = Ok(0) /\ parsed'.val = ssq)]_vars

\* a chart had been decoded from the first chunk when the second ran out of
\* freeze data behind its first step: the caller has the error alone
C20_Witness ==
    /\ parsed = Err("NotEnoughFreezeData", 0)
    /\ Len(ssq.charts) = 1 /\ cursor > 0


(***************************************************************************)
(* SpecFreeze: Chart::parse on longer chunks of one player, so that        *)
(* several taps and several freeze ends meet in one chunk                  *)
(***************************************************************************)
MaxRecords == 4

\* extra data, left, down, left and down, shock
RecordMasks == {0, 1, 2, 3, 15}
\* the measure offsets of n records: rising by a beat, falling by a beat,
\* or rising with a negative offset at the end
RecordMeasures(n) ==
    {[k \in 1..n |-> 1024 * (k - 1)], [k \in 1..n |-> 1024 * (n - k)]}
    \cup {[k \in 1..n |-> IF k = n THEN -4096 ELSE 1024 * (k - 1)] : x \in {y \in {0} : n > 0}}
\* freeze ends on left, on down, on both and on no column, and a record of
\* an unknown type
RecordPairs == {<<1, 1>>, <<2, 1>>, <<3, 1>>, <<0, 1>>, <<1, 2>>}
\* the streams of at most z pairs, and the streams of z pairs behind a zero
\* byte of padding
RecordStreams(z) ==
    {Flatten(ps) : ps \in UNION {[1..k -> RecordPairs] : k \in 0..z}}
    \cup {<<0>> \o Flatten(ps) : ps \in [1..z -> RecordPairs]}

InitFreeze ==
    /\ parameter = 260                \* 0x0104: 1 player, code 1
    /\ \E n \in 0..MaxRecords :
          /\ steps \in [1..n -> RecordMasks]
          /\ measures \in RecordMeasures(n)
    /\ freeze_data \in RecordStreams(Cardinality({k \in DOMAIN steps : steps[k] = 0}))
    /\ difficulty = Unset /\ freeze_iter = <<>> /\ step = 0
    /\ parsed_steps = <<>> /\ freeze_steps = <<>> /\ chart = Unset
    /\ RowIdle /\ LevelIdle /\ ShockIdle /\ TempoIdle /\ ConvIdle /\ FileIdle /\ BatchIdle

SpecFreeze == InitFreeze /\ [][Next]_vars

(***************************************************************************)
(* Claims about the cleanup and the freeze reconciliation of Chart::parse  *)
(***************************************************************************)
\* the positions (from 1) of parsed_steps that a freeze end was matched with
Subsumed == {freeze_steps[k] + 1 : k \in DOMAIN freeze_steps}

\* ss without the elements at the positions of drop, from position k on
RECURSIVE Without(_, _, _)
Without(ss, drop, k) ==
    IF k > Len(ss) THEN <<>>
    ELSE IF k \in drop THEN Without(ss, drop, k + 1)
    ELSE <<ss[k]>> \o Without(ss, drop, k + 1)

\* the scan of the records has ended and the cleanup has run
CleanedUp == difficulty.tag = "Ok" /\ step = Len(steps) /\ chart.tag \in {"Ok", "Panic"}

\* C21: after the cleanup the chart holds every parsed event except the
\* Taps a freeze end was matched with: every Hold, every Tap that was not
\* matched, and no matched Tap, each matched index removed once.
C21_CleanupExact ==
    CleanedUp =>
        /\ chart.tag = "Ok"
        /\ chart.val.steps = Without(parsed_steps, Subsumed, 1)

\* the columns that are active in a row, as positions of its flag vector
ActiveSet(r) == {i \in DOMAIN Row_into_vec(r) : Row_into_vec(r)[i]}

\* the positions of the Taps emitted so far that share a column with row r
TapsOn(r) ==
    {i \in DOMAIN parsed_steps :
        /\ parsed_steps[i].kind = "Step"
        /\ ActiveSet(parsed_steps[i].row) \cap ActiveSet(r) # {}}

Latest(S) == CHOOSE i \in S : \A j \in S : j <= i

\* C22: a freeze end on exactly one column at beat e appends a Hold from the
\* beats of the most recently emitted Tap that shares the column to e, on the
\* freeze's row; without such a Tap it appends a Tap at e on the freeze's
\* row.  Shocks and Holds are never taken as the start.
C22_FreezeEnd ==
    [][(FreezeEnd /\ Cardinality(ActiveSet(FreezeRow.val)) = 1 /\ step' = step + 1) =>
          LET taps == TapsOn(FreezeRow.val)
          IN  IF taps # {}
              THEN parsed_steps' = Append(parsed_steps,
                                     [kind  |-> "Freeze",
                                      start |-> parsed_steps[Latest(taps)].beats,
                                      end   |-> CurBeats,
                                      row   |-> FreezeRow.val])
              ELSE parsed_steps' = Append(parsed_steps,
                                     [kind  |-> "Step",
                                      beats |-> CurBeats,
                                      row   |-> FreezeRow.val])]_vars

\* two Taps on one column and a Hold on it, then a second Hold that starts at
\* the later Tap
C22_Witness ==
    /\ Len(parsed_steps) = 4
    /\ parsed_steps[1].kind = "Step" /\ parsed_steps[2].kind = "Step"
    /\ parsed_steps[1].row = parsed_steps[2].row
    /\ parsed_steps[3].kind = "Freeze" /\ parsed_steps[4].kind = "Freeze"
    /\ parsed_steps[4].row = parsed_steps[2].row
    /\ parsed_steps[4].start = parsed_steps[2].beats
    /\ parsed_steps[4].start # parsed_steps[1].beats
    /\ parsed_steps[4].end > parsed_steps[3].end

\* the freeze bytes from the first byte that is not zero
FreezeStream ==
    LET nonzero == {i \in DOMAIN freeze_data : freeze_data[i] # 0}
    IN  IF nonzero = {} THEN <<>>
        ELSE SubSeq(freeze_data, CHOOSE i \in nonzero : \A j \in nonzero : i <= j,
                    Len(freeze_data))

\* the number of the record at hand among the extra-data records of the chunk
ExtraNumber == Cardinality({k \in 1..(step + 1) : steps[k] = 0})

\* C23: the k-th record of mask 0x00 takes the k-th 2-byte pair of the
\* freeze stream, which starts at the first non-zero freeze byte, whatever
\* the pair's type.  When the pair's type is not 1, or its column mask does
\* not name exactly one column, no event is emitted, the events emitted so
\* far stay as they are, and the scan goes on with the next record; a freeze
\* end on one column emits its event on the row of that pair's mask.
C23_FreezePairs ==
    [][(Scanning /\ CurMask = 0 /\ measures[step + 1] >= 0
        /\ Len(FreezeStream) >= 2 * ExtraNumber) =>
          LET column_mask == FreezeStream[2 * ExtraNumber - 1]
              extra_type  == FreezeStream[2 * ExtraNumber]
              freeze_row  == Row_new(column_mask, difficulty.val.players).val
          IN  /\ freeze_iter' = SubSeq(FreezeStream, 2 * ExtraNumber + 1, Len(FreezeStream))
              /\ step' = step + 1 /\ chart' = chart
              /\ IF extra_type # 1 \/ Cardinality(ActiveSet(freeze_row)) # 1
                 THEN parsed_steps' = parsed_steps /\ freeze_steps' = freeze_steps
                 ELSE /\ Len(parsed_steps') = Len(parsed_steps) + 1
                      /\ parsed_steps'[Len(parsed_steps')].row = freeze_row]_vars

\* behind a byte of padding: a freeze end on left, a record of unknown type
\* and a freeze on two columns, which leave nothing, then a freeze end on down
C23_Witness ==
    /\ steps = <<0, 0, 0, 0>> /\ step = 4
    /\ freeze_data = <<0, 1, 1, 1, 2, 3, 1, 2, 1>>
    /\ Len(parsed_steps) = 2
    /\ ActiveSet(parsed_steps[1].row) = {1}
    /\ ActiveSet(parsed_steps[2].row) = {2}
    /\ freeze_iter = <<>>

(***************************************************************************)
(* Claims about the tempo map: resolve and the builder                     *)
(***************************************************************************)
\* segment k is degenerate at beat b / holds b before its end
DegenerateAt(tc, k, b) ==
    /\ Abs(b - tc[k].start_beats) * 1000 < MEASURE_LENGTH
    /\ Abs(b - tc[k].end_beats) * 1000 < MEASURE_LENGTH
EndsAfter(tc, k, b) == tc[k].end_beats > b

\* what resolve returns up to the width of the sum: the result of the first
\* segment in map order that passes the degenerate test or the range test,
\* the sum taken in u32 as the code takes it; not-found when no segment
\* passes a test
ResolveSelection ==
    (tempo_changes.tag = "Ok" /\ time.tag # "Unset") =>
        LET tc   == tempo_changes.val
            hits == {k \in DOMAIN tc : DegenerateAt(tc, k, beats) \/ EndsAfter(tc, k, beats)}
        IN  IF hits = {} THEN time = None
            ELSE LET k == CHOOSE i \in hits : \A j \in hits : i <= j
                 IN  IF DegenerateAt(tc, k, beats)
                     THEN time = Some(tc[k].start_ms)
                     ELSE time = Some(U32Add(tc[k].start_ms,
                                        ScaledOffset(beats - tc[k].start_beats,
                                                     tc[k].beat_length)).val)

\* C24: resolve returns the result of the first segment in map order that is
\* degenerate at the query (its start_ms) or ends after the query (its
\* start_ms plus the truncated (query - start_beats) * beat_length), the
\* degenerate test taken first within a segment; it returns not-found
\* exactly when no segment passes either test.
C24_Resolve ==
    (tempo_changes.tag = "Ok" /\ time.tag # "Unset") =>
        LET tc   == tempo_changes.val
            hits == {k \in DOMAIN tc : DegenerateAt(tc, k, beats) \/ EndsAfter(tc, k, beats)}
        IN  IF hits = {} THEN time = None
            ELSE LET k   == CHOOSE i \in hits : \A j \in hits : i <= j
                     sum == U32Add(tc[k].start_ms,
                                   ScaledOffset(beats - tc[k].start_beats,
                                                tc[k].beat_length))
                 IN  IF DegenerateAt(tc, k, beats)
                     THEN time = Some(tc[k].start_ms)
                     ELSE ~sum.overflow /\ time = Some(sum.val)

\* Numbers beyond 32 bits as [hi, lo] with hi * Limb + lo the value and no
\* bound on hi: 1000 * n for a u32 n, its quotient by d, and sums
WideMul1000(n) ==
    [hi |-> 1000 * (n \div Limb) + (1000 * (n % Limb)) \div Limb,
     lo |-> (1000 * (n % Limb)) % Limb]
WideDiv(w, d) ==
    [hi |-> w.hi \div d, lo |-> ((w.hi % d) * Limb + w.lo) \div d]
WideAdd(a, b) ==
    [hi |-> a.hi + b.hi + (a.lo + b.lo) \div Limb, lo |-> (a.lo + b.lo) % Limb]

\* the length of segment i in ms and in 1/MEASURE_LENGTH beats, from the raw
\* entries i and i + 1
SegmentMs(i) ==
    WideDiv(WideMul1000(Abs(tempo_data[i + 1] - tempo_data[i])), ticks_per_second)
SegmentBeats(i) == 4 * Abs(measure[i + 1] - measure[i])

RECURSIVE MsBefore(_)
MsBefore(i) == IF i = 1 THEN [hi |-> 0, lo |-> 0]
               ELSE WideAdd(MsBefore(i - 1), SegmentMs(i - 1))
RECURSIVE BeatsBefore(_)
BeatsBefore(i) == IF i = 1 THEN 0 ELSE BeatsBefore(i - 1) + SegmentBeats(i - 1)

\* C25: count raw entries give count - 1 segments (none for count 0 or 1);
\* the first starts at 0 ms and beat 0; segment i is
\* 4 * |measure[i] - measure[i-1]| / 4096 beats and
\* floor(1000 * |tick[i] - tick[i-1]| / tick_rate) ms long, and starts at
\* the integer sum of the lengths before it: no 32-bit overflow changes a
\* value.  (A tick rate of 0 has no quotient and is left out.)
C25_TempoBuilder ==
    (tempo_changes.tag # "Unset" /\ ticks_per_second # 0) =>
        /\ tempo_changes.tag = "Ok"
        /\ Len(tempo_changes.val) = IF Len(measure) = 0 THEN 0 ELSE Len(measure) - 1
        /\ \A i \in DOMAIN tempo_changes.val :
              LET e == tempo_changes.val[i]
              IN  /\ e.start_beats = BeatsBefore(i)
                  /\ e.end_beats = BeatsBefore(i) + SegmentBeats(i)
                  /\ e.beat_length.beats = SegmentBeats(i)
                  /\ e.beat_length.ms = SegmentMs(i)
                  /\ e.start_ms = MsBefore(i)

(***************************************************************************)
(* main.rs: batch conversion.  musicdb.music.into_par_iter().for_each runs *)
(* the closure once per song on the workers of the thread pool; the        *)
(* closures share the progress bar behind its mutex and nothing else.      *)
(***************************************************************************)
\* SSQ::parse as a whole: after a pass of its loop, the result of the pass
\* that ends it
RECURSIVE SSQ_parse_after(_, _, _)
SSQ_parse_after(oc, bytes, pass) ==
    IF pass.result.tag # "Unset" THEN pass.result
    ELSE SSQ_parse_after(oc, bytes, SSQ_chunk(oc, bytes, pass.cursor, pass.ssq))

SSQ_parse(oc, bytes) ==
    SSQ_parse_after(oc, bytes,
                    SSQ_chunk(oc, bytes, 0, [tempo_changes |-> <<>>, charts |-> <<>>]))

\* fn ddr2osu for a song whose SSQ file holds ssq_data: SSQ::parse(...)
\* with `?`; the stages behind it (conversion, wave bank, archive) are taken
\* to succeed, and Ok carries the decoded file they work from
ddr2osu(oc, ssq_data) == SSQ_parse(oc, ssq_data)

MaxSongs == 2
Workers == {1, 2}

\* SSQ files of songs: one that decodes, one that fails with an error (a
\* negative chunk length), one whose first header declares length 5
SongFiles ==
    {Chunk(1, 150, TempoPayload(<<0, 4096>>, <<0, 300>>)) \o Terminator,
     le32(-1) \o le16(1) \o le16(0),
     le32(5) \o le16(1) \o le16(0) \o <<0>>}

InitBatch ==
    /\ \E n \in 1..MaxSongs : music \in [1..n -> SongFiles]
    /\ claimed = {}
    /\ worker = [w \in Workers |-> [pc |-> "idle", entry |-> 0]]
    \* ProgressBar::new(musicdb.music.len())
    /\ pb = [owner |-> 0, total |-> Len(music), current |-> 0, message |-> 0, ticks |-> 0]
    /\ converted = [i \in DOMAIN music |-> Unset]
    /\ logged = <<>>
    /\ batch = Unset
    /\ overflow_checks \in BOOLEAN
    /\ ticks_per_second = 0 /\ measure = <<>> /\ tempo_data = <<>>
    /\ tempo_changes = Unset /\ beats = 0 /\ time = Unset
    /\ RowIdle /\ LevelIdle /\ ShockIdle /\ ChartIdle /\ ConvIdle /\ FileIdle

batchOthers == <<rowVars, levelVars, shockVars, tempoVars, chartVars, convVars, fileVars>>

\* a worker of the pool has unwound from a panic of the closure
Unwinding == \E w \in Workers : worker[w].pc = "unwound"

\* the pool hands a song to a worker that is free.  After a panic the pool
\* may or may not start the songs that are left.
Take(w) ==
    /\ batch.tag = "Unset" /\ worker[w].pc = "idle"
    /\ \E i \in DOMAIN music \ claimed :
          /\ claimed' = claimed \cup {i}
          /\ worker' = [worker EXCEPT ![w] = [pc |-> "message", entry |-> i]]
    /\ UNCHANGED <<music, pb, converted, logged, batch, batchOthers>>

\* pb.lock(): the guard is taken when no closure holds it
Lock(w, at, then) ==
    /\ worker[w].pc = at /\ pb.owner = 0
    /\ pb' = [pb EXCEPT !.owner = w]
    /\ worker' = [worker EXCEPT ![w].pc = then]
    /\ UNCHANGED <<music, claimed, converted, logged, batch, batchOthers>>

LockForMessage(w) == Lock(w, "message", "message_locked")
LockForTick(w) == Lock(w, "tick", "tick_locked")
LockForInc(w) == Lock(w, "inc", "inc_locked")

\* .unwrap().message(&format!("{} ", entry.basename)); the guard is dropped
\* at the end of the statement
Message(w) ==
    /\ worker[w].pc = "message_locked" /\ pb.owner = w
    /\ pb' = [pb EXCEPT !.message = worker[w].entry, !.owner = 0]
    /\ worker' = [worker EXCEPT ![w].pc = "tick"]
    /\ UNCHANGED <<music, claimed, converted, logged, batch, batchOthers>>

\* .unwrap().tick()
Tick(w) ==
    /\ worker[w].pc = "tick_locked" /\ pb.owner = w
    /\ pb' = [pb EXCEPT !.ticks = @ + 1, !.owner = 0]
    /\ worker' = [worker EXCEPT ![w].pc = "convert"]
    /\ UNCHANGED <<music, claimed, converted, logged, batch, batchOthers>>

\* ddr2osu(...).unwrap_or_else(|err| error!(...)): an Err is logged and the
\* closure goes on; a panic unwinds out of the closure
Convert(w) ==
    /\ worker[w].pc = "convert"
    /\ converted' = [converted EXCEPT ![worker[w].entry] =
                        ddr2osu(overflow_checks, music[worker[w].entry])]
    /\ logged' = IF converted'[worker[w].entry].tag = "Err"
                 THEN Append(logged, worker[w].entry) ELSE logged
    /\ worker' = [worker EXCEPT ![w].pc =
                     IF converted'[worker[w].entry].tag = "Panic"
                     THEN "unwound" ELSE "inc"]
    /\ UNCHANGED <<music, claimed, pb, batch, batchOthers>>

\* .unwrap().inc(), the end of the closure
Inc(w) ==
    /\ worker[w].pc = "inc_locked" /\ pb.owner = w
    /\ pb' = [pb EXCEPT !.current = @ + 1, !.owner = 0]
    /\ worker' = [worker EXCEPT ![w] = [pc |-> "idle", entry |-> 0]]
    /\ UNCHANGED <<music, claimed, converted, logged, batch, batchOthers>>

\* for_each returns: every song has been handed out and every closure ended
BatchReturn ==
    /\ batch.tag = "Unset" /\ ~Unwinding
    /\ claimed = DOMAIN music
    /\ \A w \in Workers : worker[w].pc = "idle"
    /\ batch' = Ok(0)
    /\ UNCHANGED <<music, claimed, worker, pb, converted, logged, batchOthers>>

\* for_each resumes the panic of a closure in its caller once the closures
\* that run have ended
BatchPanic ==
    /\ batch.tag = "Unset" /\ Unwinding
    /\ \A w \in Workers : worker[w].pc \in {"idle", "unwound"}
    /\ batch' = Panic("closure panicked")
    /\ UNCHANGED <<music, claimed, worker, pb, converted, logged, batchOthers>>

NextBatch ==
    \/ \E w \in Workers : Take(w)
    \/ \E w \in Workers : LockForMessage(w)
    \/ \E w \in Workers : Message(w)
    \/ \E w \in Workers : LockForTick(w)
    \/ \E w \in Workers : Tick(w)
    \/ \E w \in Workers : Convert(w)
    \/ \E w \in Workers : LockForInc(w)
    \/ \E w \in Workers : Inc(w)
    \/ BatchReturn
    \/ BatchPanic

SpecBatch == InitBatch /\ [][NextBatch]_vars

(***************************************************************************)
(* Claims about batch conversion                                           *)
(***************************************************************************)
\* the songs whose conversion does not return Ok
Failed == {i \in DOMAIN music : ddr2osu(overflow_checks, music[i]).tag # "Ok"}

\* C26: under every interleaving of the workers, when the batch ends every
\* song has been converted with the result its own file gives, every song
\* whose conversion failed has been logged once, and the progress counter
\* equals the number of songs: it was incremented once per song.
C26_BatchProgress ==
    batch.tag # "Unset" =>
        /\ \A i \in DOMAIN music : converted[i] = ddr2osu(overflow_checks, music[i])
        /\ \A i \in Failed : Cardinality({k \in DOMAIN logged : logged[k] = i}) = 1
        /\ pb.current = Len(music)

\* the same for batches in which no conversion panics
BatchWithoutPanic ==
    (\A i \in DOMAIN music : ddr2osu(overflow_checks, music[i]).tag # "Panic") =>
        /\ C26_BatchProgress
        /\ batch.tag # "Panic"
        /\ pb.current = Cardinality({i \in DOMAIN music : converted[i].tag # "Unset"
                                        /\ \A w \in Workers : worker[w].entry # i})

\* the Holds among the events ss cover one column each
HoldsOnOneColumn(ss) ==
    \A k \in DOMAIN ss :
        ss[k].kind = "Freeze" =>
            /\ Cardinality(ActiveSet(ss[k].row)) = 1
            /\ Len(ActiveColumns(ss[k].row)) = 1

\* C27: every Hold of a decoded chart, and every Hold pushed during the
\* scan, has a row with exactly one active column: a freeze end on no column
\* or on several columns never produces a Hold, so the translator finds one
\* column, and at most one target event, for a Hold.
C27_HoldOneColumn ==
    /\ HoldsOnOneColumn(parsed_steps)
    /\ chart.tag = "Ok" => HoldsOnOneColumn(chart.val.steps)

\* a Tap on left, then freeze ends on two columns, on none and on left: the
\* chart is the one Hold on left
C27_Witness ==
    /\ steps = <<1, 0, 0, 0>> /\ freeze_data = <<3, 1, 0, 1, 1, 1>>
    /\ chart.tag = "Ok"
    /\ Len(chart.val.steps) = 1
    /\ chart.val.steps[1].kind = "Freeze"
    /\ ActiveSet(chart.val.steps[1].row) = {1}

\* C28: a Tap starts at most one Hold: the indices recorded for the Holds
\* are pairwise different, a later freeze end is never matched with a Tap
\* that a freeze end has been matched with before.
C28_TapStartsOneHold ==
    \A j, k \in DOMAIN freeze_steps :
        j # k => freeze_steps[j] # freeze_steps[k]

\* the position in parsed_steps of the k-th Hold pushed, the one that
\* freeze_steps[k] was recorded for
HoldPosition(k) ==
    CHOOSE p \in DOMAIN parsed_steps :
        /\ parsed_steps[p].kind = "Freeze"
        /\ Cardinality({q \in 1..p : parsed_steps[q].kind = "Freeze"}) = k

\* C29: when a freeze end is matched with a Tap on several columns, each
\* column of that Tap other than the freeze's is still in the decoded chart
\* as a Tap at the Tap's beat.
C29_NoColumnLost ==
    (CleanedUp /\ chart.tag = "Ok") =>
        \A k \in DOMAIN freeze_steps :
            LET tap  == parsed_steps[freeze_steps[k] + 1]
                hold == parsed_steps[HoldPosition(k)]
            IN  \A c \in ActiveSet(tap.row) \ ActiveSet(hold.row) :
                    \E n \in DOMAIN chart.val.steps :
                        /\ chart.val.steps[n].kind = "Step"
                        /\ chart.val.steps[n].beats = tap.beats
                        /\ c \in ActiveSet(chart.val.steps[n].row)

\* the measure offsets do not decrease in record order
NonDecreasing == \A j, k \in DOMAIN measures : j < k => measures[j] <= measures[k]

\* record j is a normal step: its mask is not 0x00 and not a shock mask
NormalRecord(j) == steps[j] # 0 /\ ~(steps[j] = 255 \/ steps[j] = 15)

\* C30: with measure offsets that do not decrease, every Hold of the
\* decoded chart starts no later than it ends, and starts at the beats of a
\* normal-step record that lies before the extra-data record, at the
\* Hold's end beats, that ended the freeze.
C30_HoldSpan ==
    (NonDecreasing /\ CleanedUp /\ chart.tag = "Ok") =>
        \A n \in DOMAIN chart.val.steps :
            chart.val.steps[n].kind = "Freeze" =>
                /\ chart.val.steps[n].start <= chart.val.steps[n].end
                /\ \E j, e \in DOMAIN steps :
                      /\ j < e
                      /\ NormalRecord(j)
                      /\ 4 * measures[j] = chart.val.steps[n].start
                      /\ steps[e] = 0
                      /\ 4 * measures[e] = chart.val.steps[n].end
=============================================================================
